---------------------------- MODULE Spec2Model ----------------------------
(***************************************************************************)
(* Incremental dictionary-progress aggregation of dictionary_service:      *)
(* Word / UserWord / Dictionary.word_count / DictionaryProgress and the    *)
(* operations that mutate them (WordSerializer.create / update,            *)
(* Word.delete with its pre_delete / post_delete receivers, and            *)
(* BulkWordActionView.post).                                               *)
(*                                                                         *)
(* Numbers.  progress, total_progress and max_progress are floats in the   *)
(* source; here they are exact rationals held as integers counted in       *)
(* 1/Unit of a progress point (Unit = 2: halves, so 2.5 is the integer 5). *)
(* overall_progress is held in thousandths of a percent, which is what     *)
(* round(x, 3) keeps.  Binary floating-point rounding error is not         *)
(* modelled.                                                               *)
(***************************************************************************)
EXTENDS Integers, Sequences, FiniteSets, TLC

\* ---------------------------------------------------------------- bounds
Unit == 2
MaxWords == 3
MaxSteps == 5
MaxCalls == 3
MaxDirect == 1

\* ------------------------------------------------------ program constants
\* models.py:427 / 445 / 267: every word contributes 10 to max_progress
MaxPerWord == 10
\* models.py:391: percent
Percent == 100
\* models.py:391: round(..., 3) keeps thousandths
Thousandths == 1000

WordIds == 1..MaxWords
Dicts == {1, 2}

\* progress values submitted through WordSerializer (FloatField, no range
\* validator): 0, 2.5 and 10
ProgressInputs == {0, (5 * Unit) \div 2, 10 * Unit}
\* progress values handed directly to add_word / remove_word / update_word
\* (-1, 0, 2.5, 5 and 10), on the DictionaryProgress of StoreDict
StoreProgress == {-1 * Unit, 0, (5 * Unit) \div 2, 5 * Unit, 10 * Unit}
StoreDict == CHOOSE d \in Dicts : TRUE
\* progress of the words a dictionary holds before a method is called on
\* its row (0, 5 and 10)
SeedProgress == {0, 5 * Unit, 10 * Unit}
\* arguments of a single direct call: -1, 0, 2, 2.5, 3, 5, 9, 10 and 11
MethodProgress == {-1 * Unit, 0, 2 * Unit, (5 * Unit) \div 2, 3 * Unit,
                   5 * Unit, 9 * Unit, 10 * Unit, 11 * Unit}

None == "None"

\* The tables, each a function from primary key (or owning key) to row:
\*   dictionaries : Dictionary id -> [user_id, word_count]
\*   words        : Word id -> [dictionary]
\*   userwords    : Word id (one-to-one) -> [progress, highlight_disabled]
\*   progress     : Dictionary id (one-to-one) -> DictionaryProgress row
\* nextId is the next fresh Word id (uuid4 never repeats), steps counts the
\* requests served so far, lastOp is the last request and its outcome.
\* inflight holds the requests being served statement by statement (each
\* with the objects it has loaded) where requests overlap; it is empty
\* where every request is served in one step.
VARIABLES dictionaries, words, userwords, progress, nextId, steps, lastOp,
          inflight

vars == <<dictionaries, words, userwords, progress, nextId, steps, lastOp,
          inflight>>

\* the database as one value
DB ==
    [dictionaries |-> dictionaries, words |-> words, userwords |-> userwords,
     progress |-> progress]

Without(f, S) == [x \in (DOMAIN f) \ S |-> f[x]]

\* ------------------------------------------------------------ arithmetic
\* Python round(): the nearest integer to num/den, ties to even (den > 0)
RoundHalfEven(num, den) ==
    LET q == num \div den
        r == num % den
    IN  IF 2 * r < den THEN q
        ELSE IF 2 * r > den THEN q + 1
        ELSE IF q % 2 = 0 THEN q ELSE q + 1

\* round((total / max) * 100, 3), in thousandths of a percent
RoundedPercent(total, max) ==
    RoundHalfEven(total * Percent * Thousandths, max)

Max0(n) == IF n < 0 THEN 0 ELSE n

RECURSIVE SumSeq(_)
SumSeq(s) == IF s = <<>> THEN 0 ELSE Head(s) + SumSeq(Tail(s))

\* all orderings of a finite set, as sequences
Perms(S) ==
    {s \in [1..Cardinality(S) -> S] : \A i, j \in 1..Cardinality(S) : s[i] = s[j] => i = j}

\* --------------------------------------------------- DictionaryProgress
\* DictionaryProgress.objects.create(dictionary=instance): field defaults
NewDictionaryProgress ==
    [total_progress |-> 0, overall_progress |-> 0, max_progress |-> 0,
     group_0_2 |-> 0, group_3_4 |-> 0, group_5_6 |-> 0, group_7_8 |-> 0,
     group_9_10 |-> 0]

\* _get_group with the upper ends of the ranges excluded
_get_group_open_upper(p) ==
    IF 0 <= p /\ p < 2 * Unit THEN "0_2"
    ELSE IF 3 * Unit <= p /\ p < 4 * Unit THEN "3_4"
    ELSE IF 5 * Unit <= p /\ p < 6 * Unit THEN "5_6"
    ELSE IF 7 * Unit <= p /\ p < 8 * Unit THEN "7_8"
    ELSE IF 9 * Unit <= p /\ p < 10 * Unit THEN "9_10"
    ELSE None

_get_group(p) ==
    IF 0 <= p /\ p <= 2 * Unit THEN "0_2"
    ELSE IF 3 * Unit <= p /\ p <= 4 * Unit THEN "3_4"
    ELSE IF 5 * Unit <= p /\ p <= 6 * Unit THEN "5_6"
    ELSE IF 7 * Unit <= p /\ p <= 8 * Unit THEN "7_8"
    ELSE IF 9 * Unit <= p /\ p <= 10 * Unit THEN "9_10"
    ELSE None

_compute_overall_progress(dp) ==
    IF dp.max_progress <= 0 THEN 0
    ELSE RoundedPercent(dp.total_progress, dp.max_progress)

_adjust_group_counter(dp, p, delta) ==
    LET group == _get_group(p)
    IN  IF group = "0_2" THEN [dp EXCEPT !.group_0_2 = Max0(@ + delta)]
        ELSE IF group = "3_4" THEN [dp EXCEPT !.group_3_4 = Max0(@ + delta)]
        ELSE IF group = "5_6" THEN [dp EXCEPT !.group_5_6 = Max0(@ + delta)]
        ELSE IF group = "7_8" THEN [dp EXCEPT !.group_7_8 = Max0(@ + delta)]
        ELSE IF group = "9_10" THEN [dp EXCEPT !.group_9_10 = Max0(@ + delta)]
        ELSE dp

\* add_word with overall_progress computed before max_progress grows
add_word_overall_first(dp, p) ==
    LET d1 == [dp EXCEPT !.total_progress = @ + p]
        d2 == _adjust_group_counter(d1, p, 1)
        d3 == [d2 EXCEPT !.overall_progress = _compute_overall_progress(d2)]
    IN  [d3 EXCEPT !.max_progress = @ + MaxPerWord * Unit]

add_word(dp, p) ==
    LET d1 == [dp EXCEPT !.total_progress = @ + p]
        d2 == _adjust_group_counter(d1, p, 1)
        d3 == [d2 EXCEPT !.max_progress = @ + MaxPerWord * Unit]
    IN  [d3 EXCEPT !.overall_progress = _compute_overall_progress(d3)]

\* remove_word that leaves total_progress alone when it resets
remove_word_keeps_total(dp, p) ==
    LET d1 == [dp EXCEPT !.total_progress = @ - p]
        d2 == _adjust_group_counter(d1, p, -1)
        d3 == [d2 EXCEPT !.max_progress = @ - MaxPerWord * Unit]
    IN  IF d3.max_progress <= 0
        THEN [d3 EXCEPT !.overall_progress = 0]
        ELSE [d3 EXCEPT !.overall_progress = _compute_overall_progress(d3)]

\* remove_word that adds the progress to total_progress instead of
\* subtracting it
remove_word_adds(dp, p) ==
    LET d1 == [dp EXCEPT !.total_progress = @ + p]
        d2 == _adjust_group_counter(d1, p, -1)
        d3 == [d2 EXCEPT !.max_progress = @ - MaxPerWord * Unit]
    IN  IF d3.max_progress <= 0
        THEN [d3 EXCEPT !.overall_progress = 0, !.total_progress = 0]
        ELSE [d3 EXCEPT !.overall_progress = _compute_overall_progress(d3)]

\* remove_word with the reset taken only when max_progress is exactly 0
remove_word_reset_at_zero_only(dp, p) ==
    LET d1 == [dp EXCEPT !.total_progress = @ - p]
        d2 == _adjust_group_counter(d1, p, -1)
        d3 == [d2 EXCEPT !.max_progress = @ - MaxPerWord * Unit]
    IN  IF d3.max_progress = 0
        THEN [d3 EXCEPT !.overall_progress = 0, !.total_progress = 0]
        ELSE [d3 EXCEPT !.overall_progress = _compute_overall_progress(d3)]

remove_word(dp, p) ==
    LET d1 == [dp EXCEPT !.total_progress = @ - p]
        d2 == _adjust_group_counter(d1, p, -1)
        d3 == [d2 EXCEPT !.max_progress = @ - MaxPerWord * Unit]
    IN  IF d3.max_progress <= 0
        THEN [d3 EXCEPT !.overall_progress = 0, !.total_progress = 0]
        ELSE [d3 EXCEPT !.overall_progress = _compute_overall_progress(d3)]

\* update_word that subtracts the new progress too
update_word_subtracts_new(dp, old_progress, new_progress) ==
    LET d1 == [dp EXCEPT !.total_progress = @ - old_progress - new_progress]
        d2 == _adjust_group_counter(d1, old_progress, -1)
        d3 == _adjust_group_counter(d2, new_progress, 1)
    IN  [d3 EXCEPT !.overall_progress = _compute_overall_progress(d3)]

\* update_word that does not recompute overall_progress
update_word_stale_overall(dp, old_progress, new_progress) ==
    LET d1 == [dp EXCEPT !.total_progress = @ - old_progress + new_progress]
        d2 == _adjust_group_counter(d1, old_progress, -1)
    IN  _adjust_group_counter(d2, new_progress, 1)

\* update_word that also counts the word into max_progress again
update_word_grows_max(dp, old_progress, new_progress) ==
    LET d1 == [dp EXCEPT !.total_progress = @ - old_progress + new_progress]
        d2 == _adjust_group_counter(d1, old_progress, -1)
        d3 == _adjust_group_counter(d2, new_progress, 1)
        d4 == [d3 EXCEPT !.max_progress = @ + MaxPerWord * Unit]
    IN  [d4 EXCEPT !.overall_progress = _compute_overall_progress(d4)]

\* update_word with -1 passed for the new progress as well
update_word_decrements_new(dp, old_progress, new_progress) ==
    LET d1 == [dp EXCEPT !.total_progress = @ - old_progress + new_progress]
        d2 == _adjust_group_counter(d1, old_progress, -1)
        d3 == _adjust_group_counter(d2, new_progress, -1)
    IN  [d3 EXCEPT !.overall_progress = _compute_overall_progress(d3)]

update_word(dp, old_progress, new_progress) ==
    LET d1 == [dp EXCEPT !.total_progress = @ - old_progress + new_progress]
        d2 == _adjust_group_counter(d1, old_progress, -1)
        d3 == _adjust_group_counter(d2, new_progress, 1)
    IN  [d3 EXCEPT !.overall_progress = _compute_overall_progress(d3)]

\* ------------------------------------------------------------- database
Ok(db) == [ok |-> TRUE, db |-> db]
Raise(db) == [ok |-> FALSE, db |-> db]

\* PositiveIntegerField columns carry the CHECK (col >= 0) constraint: an
\* UPDATE or INSERT leaving one negative raises IntegrityError
ViolatesCheck(db) ==
    \/ \E d \in DOMAIN db.dictionaries : db.dictionaries[d].word_count < 0
    \/ \E d \in DOMAIN db.progress :
          \/ db.progress[d].group_0_2 < 0
          \/ db.progress[d].group_3_4 < 0
          \/ db.progress[d].group_5_6 < 0
          \/ db.progress[d].group_7_8 < 0
          \/ db.progress[d].group_9_10 < 0

\* word.userword.progress, with the "except Exception: 0.0" fallback
ProgressOf(db, w) ==
    IF w \in DOMAIN db.userwords THEN db.userwords[w].progress ELSE 0

\* ------------------------------------------------------ signal receivers
\* the receiver without its filter(id=...): every Dictionary row counted up
increment_word_count_every_dictionary(db, d) ==
    [db EXCEPT !.dictionaries =
        [x \in DOMAIN @ |-> [@[x] EXCEPT !.word_count = @ + 1]]]

\* post_save(Word), created=True
increment_word_count(db, d) ==
    [db EXCEPT !.dictionaries[d].word_count = @ + 1]

\* post_delete(Word)
decrement_word_count(db, d) ==
    LET db1 == [db EXCEPT !.dictionaries[d].word_count = @ - 1]
    IN  IF ViolatesCheck(db1) THEN Raise(db)
        ELSE IF db1.dictionaries[d].word_count < 0
             THEN Ok([db1 EXCEPT !.dictionaries[d].word_count = 0])
             ELSE Ok(db1)

\* pre_delete(Word): instance._progress_for_deletion
store_word_progress_before_deletion(db, w) == ProgressOf(db, w)

\* post_delete(Word)
update_dictionary_progress_on_word_deletion(db, d, p) ==
    IF d \in DOMAIN db.progress
    THEN [db EXCEPT !.progress[d] = remove_word(@, p)]
    ELSE db

\* the post_delete receivers of one deleted Word of dictionary d whose
\* pre_delete receiver stored p, in connection order
PostDelete(db, d, p) ==
    LET r == decrement_word_count(db, d)
    IN  IF ~r.ok THEN r
        ELSE Ok(update_dictionary_progress_on_word_deletion(r.db, d, p))

RECURSIVE PostDeleteAll(_, _, _, _)
PostDeleteAll(db, order, dictOf, stored) ==
    IF order = <<>> THEN Ok(db)
    ELSE LET r == PostDelete(db, dictOf[Head(order)], stored[Head(order)])
         IN  IF ~r.ok THEN r
             ELSE PostDeleteAll(r.db, Tail(order), dictOf, stored)

\* the collector reading the progress after the cascade has removed the
\* UserWord rows: every receiver gets the 0.0 fallback
CollectorDelete_cascade_first(db, order) ==
    LET ids == {order[i] : i \in 1..Len(order)}
        dictOf == [w \in ids |-> db.words[w].dictionary]
        db1 == [db EXCEPT !.userwords = Without(@, ids), !.words = Without(@, ids)]
        stored == [w \in ids |-> store_word_progress_before_deletion(db1, w)]
    IN  PostDeleteAll(db1, order, dictOf, stored)

\* django Collector.delete() for the Word rows of `order` (Model.delete and
\* QuerySet.delete both end here): pre_delete for every instance, the
\* cascade to UserWord and the row deletes, then post_delete per instance
CollectorDelete(db, order) ==
    LET ids == {order[i] : i \in 1..Len(order)}
        stored == [w \in ids |-> store_word_progress_before_deletion(db, w)]
        dictOf == [w \in ids |-> db.words[w].dictionary]
        db1 == [db EXCEPT !.userwords = Without(@, ids), !.words = Without(@, ids)]
    IN  PostDeleteAll(db1, order, dictOf, stored)

\* ------------------------------------------------------------------ Word
\* Word.save: the row write, the post_save receiver inside super().save(),
\* and then the method's own word_count update
Word_save(db, w, d, is_new) ==
    LET db1 == IF is_new
               THEN [db EXCEPT !.words = @ @@ (w :> [dictionary |-> d])]
               ELSE [db EXCEPT !.words[w].dictionary = d]
        db2 == IF is_new THEN increment_word_count(db1, d) ELSE db1
    IN  IF is_new
        THEN [db2 EXCEPT !.dictionaries[d].word_count = @ + 1]
        ELSE db2

\* Word.delete without transaction.atomic(): the DictionaryProgress writes
\* stay when the word_count update fails
Word_delete_no_rollback(db, w) ==
    LET d == db.words[w].dictionary
        progress_value == ProgressOf(db, w)
        has_dp == d \in DOMAIN db.progress
        \* DictionaryProgress.objects.filter(...).update(F() ...)
        db1 == IF has_dp
               THEN [db EXCEPT !.progress[d].total_progress = @ - progress_value,
                               !.progress[d].max_progress = @ - MaxPerWord * Unit]
               ELSE db
        \* dp = self.dictionary.progress ... dp.save()
        dp1 == _adjust_group_counter(db1.progress[d], progress_value, -1)
        dp2 == IF dp1.max_progress > 0
               THEN [dp1 EXCEPT !.overall_progress =
                        RoundedPercent(dp1.total_progress, dp1.max_progress)]
               ELSE [dp1 EXCEPT !.overall_progress = 0, !.total_progress = 0]
        db2 == [db1 EXCEPT !.progress[d] = dp2]
        \* Dictionary.objects.filter(...).update(word_count=F() - 1)
        db3 == [db2 EXCEPT !.dictionaries[d].word_count = @ - 1]
        \* super().delete()
        r == CollectorDelete(db3, <<w>>)
    IN  IF ~has_dp THEN Raise(db)
        ELSE IF ViolatesCheck(db3) THEN Raise(db2)
        ELSE IF ~r.ok THEN Raise(db)
        ELSE r

\* Word.delete: everything inside "with transaction.atomic()"; an exception
\* rolls the whole method back
Word_delete(db, w) ==
    LET d == db.words[w].dictionary
        progress_value == ProgressOf(db, w)
        has_dp == d \in DOMAIN db.progress
        \* DictionaryProgress.objects.filter(...).update(F() ...)
        db1 == IF has_dp
               THEN [db EXCEPT !.progress[d].total_progress = @ - progress_value,
                               !.progress[d].max_progress = @ - MaxPerWord * Unit]
               ELSE db
        \* dp = self.dictionary.progress ... dp.save()
        dp1 == _adjust_group_counter(db1.progress[d], progress_value, -1)
        dp2 == IF dp1.max_progress > 0
               THEN [dp1 EXCEPT !.overall_progress =
                        RoundedPercent(dp1.total_progress, dp1.max_progress)]
               ELSE [dp1 EXCEPT !.overall_progress = 0, !.total_progress = 0]
        db2 == [db1 EXCEPT !.progress[d] = dp2]
        \* Dictionary.objects.filter(...).update(word_count=F() - 1)
        db3 == [db2 EXCEPT !.dictionaries[d].word_count = @ - 1]
        \* super().delete()
        r == CollectorDelete(db3, <<w>>)
    IN  IF ~has_dp THEN Raise(db)
        ELSE IF ViolatesCheck(db3) THEN Raise(db)
        ELSE IF ~r.ok THEN Raise(db)
        ELSE r

\* -------------------------------------------------------- WordSerializer
\* UserWord.objects.create(word=..., progress=p): highlight_disabled is
\* False by default (models.py:318, serializers.py:34-38)
NewUserWord(p) == [progress |-> p, highlight_disabled |-> FALSE]

\* Word.objects.create(...) and UserWord.objects.create(...)
CreateRows(db, w, d, p) ==
    [Word_save(db, w, d, TRUE) EXCEPT !.userwords = @ @@ (w :> NewUserWord(p))]

WordSerializer_create(db, w, d, p) ==
    LET db2 == CreateRows(db, w, d, p)
    IN  IF d \in DOMAIN db2.progress
        THEN [db2 EXCEPT !.progress[d] = add_word(@, p)]
        ELSE db2

\* create as far as an exception in UserWord.objects.create lets it run:
\* count is a serializers.IntegerField without max_value (serializers.py:32)
\* and goes unchecked into the INSERT (serializers.py:83-88); count_fits
\* tells whether the integer column can hold it.  No transaction surrounds
\* the method: the Word row and the word_count updates of Word.objects.create
\* are committed when the INSERT raises
WordSerializer_create_counted(db, w, d, p, count_fits) ==
    IF count_fits THEN Ok(WordSerializer_create(db, w, d, p))
    ELSE Raise(Word_save(db, w, d, TRUE))

\* d is the dictionary of validated_data (the word's own when the request
\* leaves it alone), has_progress tells whether progress was submitted
\* old_progress read from the submitted value, as if userword.progress had
\* been assigned first
old_progress_of_assigned(userword, p) == p

\* old_progress = userword.progress
old_progress_of(userword, p) == userword.progress

\* instance.save(), then instance.userword or, without one,
\* UserWord.objects.create(word=instance)
UpdateRows(db, w, d) ==
    LET db1 == Word_save(db, w, d, FALSE)
    IN  IF w \in DOMAIN db1.userwords THEN db1
        ELSE [db1 EXCEPT !.userwords = @ @@ (w :> NewUserWord(0))]

WordSerializer_update(db, w, d, has_progress, p) ==
    LET db2 == UpdateRows(db, w, d)
        old_progress == old_progress_of(db2.userwords[w], p)
        db3 == IF has_progress /\ old_progress # p /\ d \in DOMAIN db2.progress
               THEN [db2 EXCEPT !.progress[d] = update_word(@, old_progress, p)]
               ELSE db2
    IN  IF has_progress
        THEN [db3 EXCEPT !.userwords[w].progress = p]
        ELSE db3

\* ---------------------------------------------------- BulkWordActionView
GroupsDeleted(db, found, g) ==
    Cardinality({w \in found : _get_group(ProgressOf(db, w)) = g})

\* the delete branch without transaction.atomic(): the word_count update
\* stays when the DictionaryProgress update fails
BulkDelete_no_rollback(db, word_ids, order) ==
    LET found == word_ids \cap DOMAIN db.words
        dict_ids == {db.words[w].dictionary : w \in found}
        dict_id == CHOOSE d \in dict_ids : TRUE
        delete_count == Cardinality(found)
        progress_sum == SumSeq([i \in 1..Len(order) |-> ProgressOf(db, order[i])])
        db1 == [db EXCEPT !.dictionaries[dict_id].word_count = @ - delete_count]
        db2 == [db1 EXCEPT
                  !.progress[dict_id].total_progress = @ - progress_sum,
                  !.progress[dict_id].max_progress = @ - delete_count * MaxPerWord * Unit,
                  !.progress[dict_id].group_0_2 = @ - GroupsDeleted(db, found, "0_2"),
                  !.progress[dict_id].group_3_4 = @ - GroupsDeleted(db, found, "3_4"),
                  !.progress[dict_id].group_5_6 = @ - GroupsDeleted(db, found, "5_6"),
                  !.progress[dict_id].group_7_8 = @ - GroupsDeleted(db, found, "7_8"),
                  !.progress[dict_id].group_9_10 = @ - GroupsDeleted(db, found, "9_10")]
        dp == db2.progress[dict_id]
        new_overall == IF dp.max_progress > 0
                       THEN RoundedPercent(dp.total_progress, dp.max_progress)
                       ELSE 0
        db3 == [db2 EXCEPT !.progress[dict_id].overall_progress = new_overall]
        r == CollectorDelete(db3, order)
    IN  IF Cardinality(dict_ids) # 1 THEN [status |-> 400, db |-> db]
        ELSE IF dict_id \notin DOMAIN db.progress THEN [status |-> 500, db |-> db]
        ELSE IF ViolatesCheck(db1) THEN [status |-> 500, db |-> db]
        ELSE IF ViolatesCheck(db2) THEN [status |-> 500, db |-> db1]
        ELSE IF ~r.ok THEN [status |-> 500, db |-> db]
        ELSE [status |-> 200, db |-> r.db]

\* the delete branch that only refuses when no word is found
BulkDelete_any_dictionary(db, word_ids, order) ==
    LET found == word_ids \cap DOMAIN db.words
        dict_ids == {db.words[w].dictionary : w \in found}
        dict_id == CHOOSE d \in dict_ids : TRUE
        delete_count == Cardinality(found)
        progress_sum == SumSeq([i \in 1..Len(order) |-> ProgressOf(db, order[i])])
        db1 == [db EXCEPT !.dictionaries[dict_id].word_count = @ - delete_count]
        db2 == [db1 EXCEPT
                  !.progress[dict_id].total_progress = @ - progress_sum,
                  !.progress[dict_id].max_progress = @ - delete_count * MaxPerWord * Unit,
                  !.progress[dict_id].group_0_2 = @ - GroupsDeleted(db, found, "0_2"),
                  !.progress[dict_id].group_3_4 = @ - GroupsDeleted(db, found, "3_4"),
                  !.progress[dict_id].group_5_6 = @ - GroupsDeleted(db, found, "5_6"),
                  !.progress[dict_id].group_7_8 = @ - GroupsDeleted(db, found, "7_8"),
                  !.progress[dict_id].group_9_10 = @ - GroupsDeleted(db, found, "9_10")]
        dp == db2.progress[dict_id]
        new_overall == IF dp.max_progress > 0
                       THEN RoundedPercent(dp.total_progress, dp.max_progress)
                       ELSE 0
        db3 == [db2 EXCEPT !.progress[dict_id].overall_progress = new_overall]
        r == CollectorDelete(db3, order)
    IN  IF Cardinality(dict_ids) = 0 THEN [status |-> 400, db |-> db]
        ELSE IF dict_id \notin DOMAIN db.progress THEN [status |-> 500, db |-> db]
        ELSE IF ViolatesCheck(db1) THEN [status |-> 500, db |-> db]
        ELSE IF ViolatesCheck(db2) THEN [status |-> 500, db |-> db]
        ELSE IF ~r.ok THEN [status |-> 500, db |-> db]
        ELSE [status |-> 200, db |-> r.db]

\* action == "delete"; order is the order in which the collector visits the
\* matched rows
BulkDelete(db, word_ids, order) ==
    LET found == word_ids \cap DOMAIN db.words
        dict_ids == {db.words[w].dictionary : w \in found}
        dict_id == CHOOSE d \in dict_ids : TRUE
        delete_count == Cardinality(found)
        progress_sum == SumSeq([i \in 1..Len(order) |-> ProgressOf(db, order[i])])
        db1 == [db EXCEPT !.dictionaries[dict_id].word_count = @ - delete_count]
        db2 == [db1 EXCEPT
                  !.progress[dict_id].total_progress = @ - progress_sum,
                  !.progress[dict_id].max_progress = @ - delete_count * MaxPerWord * Unit,
                  !.progress[dict_id].group_0_2 = @ - GroupsDeleted(db, found, "0_2"),
                  !.progress[dict_id].group_3_4 = @ - GroupsDeleted(db, found, "3_4"),
                  !.progress[dict_id].group_5_6 = @ - GroupsDeleted(db, found, "5_6"),
                  !.progress[dict_id].group_7_8 = @ - GroupsDeleted(db, found, "7_8"),
                  !.progress[dict_id].group_9_10 = @ - GroupsDeleted(db, found, "9_10")]
        dp == db2.progress[dict_id]
        new_overall == IF dp.max_progress > 0
                       THEN RoundedPercent(dp.total_progress, dp.max_progress)
                       ELSE 0
        db3 == [db2 EXCEPT !.progress[dict_id].overall_progress = new_overall]
        r == CollectorDelete(db3, order)
    IN  IF Cardinality(dict_ids) # 1 THEN [status |-> 400, db |-> db]
        ELSE IF dict_id \notin DOMAIN db.progress THEN [status |-> 500, db |-> db]
        ELSE IF ViolatesCheck(db1) THEN [status |-> 500, db |-> db]
        ELSE IF ViolatesCheck(db2) THEN [status |-> 500, db |-> db]
        ELSE IF ~r.ok THEN [status |-> 500, db |-> db]
        ELSE [status |-> 200, db |-> r.db]

\* JSON values of request.data: a list of word ids (its members as a set),
\* or any other value (string, number, object, null), of which only the
\* truthiness matters
JsonList(ids) == [is_list |-> TRUE, truthy |-> ids # {}, ids |-> ids]
JsonOther(truthy) == [is_list |-> FALSE, truthy |-> truthy, ids |-> {}]

\* the flag written to every UserWord row, listed or not
SetHighlight_every_row(db, word_ids, v) ==
    [db EXCEPT !.userwords =
        [w \in DOMAIN @ |-> [@[w] EXCEPT !.highlight_disabled = v]]]

\* UserWord.objects.filter(word_id__in=word_ids).update(highlight_disabled=v)
SetHighlight(db, word_ids, v) ==
    [db EXCEPT !.userwords =
        [w \in DOMAIN @ |->
            IF w \in word_ids THEN [@[w] EXCEPT !.highlight_disabled = v]
            ELSE @[w]]]

\* post whose final else branch disables the highlight instead of refusing
BulkWordActionView_post_lenient(db, data, order) ==
    LET action == IF "action" \in DOMAIN data THEN data.action ELSE None
        word_ids == IF "word_ids" \in DOMAIN data THEN data.word_ids
                    ELSE JsonList({})
    IN  IF ~word_ids.truthy \/ ~word_ids.is_list
        THEN [status |-> 400, db |-> db]
        ELSE IF action = "delete" THEN BulkDelete(db, word_ids.ids, order)
        ELSE IF action = "enable_highlight"
             THEN [status |-> 200, db |-> SetHighlight(db, word_ids.ids, FALSE)]
        ELSE [status |-> 200, db |-> SetHighlight(db, word_ids.ids, TRUE)]

\* data is request.data, a function on the keys the body has
BulkWordActionView_post(db, data, order) ==
    LET action == IF "action" \in DOMAIN data THEN data.action ELSE None
        word_ids == IF "word_ids" \in DOMAIN data THEN data.word_ids
                    ELSE JsonList({})
    IN  IF ~word_ids.truthy \/ ~word_ids.is_list
        THEN [status |-> 400, db |-> db]
        ELSE IF action = "delete" THEN BulkDelete(db, word_ids.ids, order)
        ELSE IF action = "disable_highlight"
             THEN [status |-> 200, db |-> SetHighlight(db, word_ids.ids, TRUE)]
        ELSE IF action = "enable_highlight"
             THEN [status |-> 200, db |-> SetHighlight(db, word_ids.ids, FALSE)]
        ELSE [status |-> 400, db |-> db]

\* the Word rows whose dictionary is d
WordsOf(db, d) == {w \in DOMAIN db.words : db.words[w].dictionary = d}

\* ---------------------------------------------------------------- actions
Op(op, status, ids) ==
    [op |-> op, status |-> status, word_ids |-> ids, args |-> <<>>]

Commit(db) ==
    /\ dictionaries' = db.dictionaries
    /\ words' = db.words
    /\ userwords' = db.userwords
    /\ progress' = db.progress

\* one more request, within the budget
Step ==
    /\ steps < MaxSteps
    /\ steps' = steps + 1
    /\ UNCHANGED inflight

\* two dictionaries created through DictionaryViewSet, each with the
\* DictionaryProgress row that create_dictionary_progress gave it; no words
Init ==
    /\ dictionaries = [d \in Dicts |-> [user_id |-> d, word_count |-> 0]]
    /\ words = <<>>
    /\ userwords = <<>>
    /\ progress = [d \in Dicts |-> NewDictionaryProgress]
    /\ nextId = 1
    /\ steps = 0
    /\ lastOp = Op("init", 0, {})
    /\ inflight = <<>>

\* POST /words/
CreateWord(d, p) ==
    /\ nextId <= MaxWords
    /\ d \in DOMAIN dictionaries
    /\ Commit(WordSerializer_create(DB, nextId, d, p))
    /\ nextId' = nextId + 1
    /\ lastOp' = Op("create", 201, {nextId})
    /\ Step

\* PUT / PATCH /words/<w>/
UpdateWord(w, d, has_progress, p) ==
    /\ w \in DOMAIN words
    /\ d \in DOMAIN dictionaries
    /\ Commit(WordSerializer_update(DB, w, d, has_progress, p))
    /\ lastOp' = Op("update", 200, {w})
    /\ Step
    /\ UNCHANGED nextId

\* DELETE /words/<w>/
DeleteWord(w) ==
    /\ w \in DOMAIN words
    /\ LET r == Word_delete(DB, w)
       IN  /\ Commit(r.db)
           /\ lastOp' = Op("delete", IF r.ok THEN 204 ELSE 500, {w})
    /\ Step
    /\ UNCHANGED nextId

\* POST /words/bulk_action/ {"action": "delete", "word_ids": [...]}
BulkDeleteWords(word_ids) ==
    /\ \E order \in Perms(word_ids \cap DOMAIN words) :
         LET r == BulkWordActionView_post(
                      DB, [action |-> "delete", word_ids |-> JsonList(word_ids)], order)
         IN  /\ Commit(r.db)
             /\ lastOp' = Op("bulk_delete", r.status, word_ids)
    /\ Step
    /\ UNCHANGED nextId

\* requests that leave every word in its dictionary
Next ==
    \/ \E d \in Dicts, p \in ProgressInputs : CreateWord(d, p)
    \/ \E w \in DOMAIN words, hp \in BOOLEAN, p \in ProgressInputs :
          UpdateWord(w, words[w].dictionary, hp, p)
    \/ \E w \in WordIds : DeleteWord(w)
    \/ \E ids \in SUBSET WordIds : BulkDeleteWords(ids)

Spec == Init /\ [][Next]_vars

\* ------------------------------------- dictionaries created and deleted
\* the receiver with its test turned round: nothing for a new Dictionary
create_dictionary_progress_unless_created(db, d) == db

\* post_save(Dictionary), created=True
create_dictionary_progress(db, d) ==
    [db EXCEPT !.progress = @ @@ (d :> NewDictionaryProgress)]

\* serializer.save(user_id=...) of DictionaryViewSet.perform_create:
\* Dictionary.save inserts the row and post_save runs the receiver
Dictionary_save(db, d, user_id) ==
    create_dictionary_progress(
        [db EXCEPT !.dictionaries =
            @ @@ (d :> [user_id |-> user_id, word_count |-> 0])], d)

\* Dictionary.delete (ModelViewSet.destroy): the collector gathers the
\* Dictionary, its Words (kept as instances, Word has receivers) and, as
\* fast deletes, the UserWords and the DictionaryProgress; the fast deletes
\* run first, then the Word rows go and their post_delete receivers run,
\* then the Dictionary row goes; one transaction
Dictionary_delete(db, d, order) ==
    LET r == CollectorDelete([db EXCEPT !.progress = Without(@, {d})], order)
    IN  IF ~r.ok THEN Raise(db)
        ELSE Ok([r.db EXCEPT !.dictionaries = Without(@, {d})])

InitNoDictionary ==
    /\ dictionaries = <<>>
    /\ words = <<>>
    /\ userwords = <<>>
    /\ progress = <<>>
    /\ nextId = 1
    /\ steps = 0
    /\ lastOp = Op("init", 0, {})
    /\ inflight = <<>>

\* POST /dictionaries/ (a new uuid; an id freed by a deletion stands for one)
CreateDictionary(d) ==
    /\ d \notin DOMAIN dictionaries
    /\ Commit(Dictionary_save(DB, d, d))
    /\ lastOp' = [op |-> "create_dictionary", status |-> 201, word_ids |-> {},
                  args |-> <<d>>]
    /\ Step
    /\ UNCHANGED nextId

\* DELETE /dictionaries/<d>/
DeleteDictionary(d) ==
    /\ d \in DOMAIN dictionaries
    /\ \E order \in Perms(WordsOf(DB, d)) :
          LET r == Dictionary_delete(DB, d, order)
          IN  /\ Commit(r.db)
              /\ lastOp' = [op |-> "delete_dictionary",
                            status |-> IF r.ok THEN 204 ELSE 500,
                            word_ids |-> {}, args |-> <<d>>]
    /\ Step
    /\ UNCHANGED nextId

NextDictionary ==
    \/ \E d \in Dicts : CreateDictionary(d)
    \/ \E d \in Dicts : DeleteDictionary(d)
    \/ \E d \in Dicts, p \in ProgressInputs : CreateWord(d, p)
    \/ \E w \in DOMAIN words, hp \in BOOLEAN, p \in ProgressInputs :
          UpdateWord(w, words[w].dictionary, hp, p)
    \/ \E w \in WordIds : DeleteWord(w)
    \/ \E ids \in SUBSET WordIds : BulkDeleteWords(ids)

DictionarySpec == InitNoDictionary /\ [][NextDictionary]_vars

\* -------------------------------- words moved from dictionary to dictionary
\* 'dictionary' is a writable field of WordSerializer (serializers.py:44):
\* an update may name another dictionary of the user
NextMove ==
    \/ \E d \in Dicts, p \in ProgressInputs : CreateWord(d, p)
    \/ \E w \in DOMAIN words, d \in Dicts, hp \in BOOLEAN, p \in ProgressInputs :
          UpdateWord(w, d, hp, p)
    \/ \E w \in WordIds : DeleteWord(w)
    \/ \E ids \in SUBSET WordIds : BulkDeleteWords(ids)

MoveSpec == Init /\ [][NextMove]_vars

\* ------------------------------- a dictionary without DictionaryProgress
\* create_dictionary_progress only acts when a Dictionary is created
\* (signals.py:124); a Dictionary row that was saved before the receiver and
\* the DictionaryProgress table existed has no row, which is the case the
\* hasattr(dictionary, 'progress') guards are written for
LegacyDict == CHOOSE d \in Dicts : d # StoreDict

InitLegacy ==
    /\ dictionaries = [d \in Dicts |-> [user_id |-> d, word_count |-> 0]]
    /\ words = <<>>
    /\ userwords = <<>>
    /\ progress = [d \in Dicts \ {LegacyDict} |-> NewDictionaryProgress]
    /\ nextId = 1
    /\ steps = 0
    /\ lastOp = Op("init", 0, {})
    /\ inflight = <<>>

LegacySpec == InitLegacy /\ [][Next]_vars

\* --------------------------------------------- every bulk_action request
\* action names a body can carry: the three the view knows and one it does
\* not
BulkActions == {"delete", "disable_highlight", "enable_highlight", "archive"}

\* word_ids values a body can carry: lists of ids, a truthy non-list (a
\* string, an object) and a falsy one (null, 0, "")
WordIdsValues ==
    {JsonList(ids) : ids \in SUBSET WordIds} \cup {JsonOther(TRUE), JsonOther(FALSE)}

\* progress of the words created between bulk requests (0 and 10)
BulkProgress == {0, 10 * Unit}

BulkBodies ==
    {[action |-> a, word_ids |-> v] : a \in BulkActions, v \in WordIdsValues}
        \cup {("action" :> a) : a \in BulkActions}
        \cup {("word_ids" :> v) : v \in WordIdsValues}

\* how the body spells word_ids
WordIdsKind(data) ==
    IF "word_ids" \notin DOMAIN data THEN "missing"
    ELSE IF ~data.word_ids.is_list THEN "not_a_list"
    ELSE IF data.word_ids.ids = {} THEN "empty"
    ELSE "list"

\* POST /words/bulk_action/ with any body
BulkAction(data) ==
    LET ids == IF "word_ids" \in DOMAIN data THEN data.word_ids.ids ELSE {}
        \* only the delete branch visits the rows one by one
        orders == IF "action" \in DOMAIN data /\ data.action = "delete"
                  THEN Perms(ids \cap DOMAIN words) ELSE {<<>>}
    IN  /\ \E order \in orders :
              LET r == BulkWordActionView_post(DB, data, order)
              IN  /\ Commit(r.db)
                  /\ lastOp' = [op |-> "bulk_action", status |-> r.status,
                                word_ids |-> ids,
                                args |-> <<IF "action" \in DOMAIN data
                                           THEN data.action ELSE None,
                                           WordIdsKind(data)>>]
        /\ Step
        /\ UNCHANGED nextId

NextBulk ==
    \/ \E d \in Dicts, p \in BulkProgress : CreateWord(d, p)
    \/ \E data \in BulkBodies : BulkAction(data)

BulkSpec == Init /\ [][NextBulk]_vars

\* ------------------------------------- DictionaryProgress called directly
Call(op, args) ==
    /\ steps < MaxCalls
    /\ steps' = steps + 1
    /\ lastOp' = [op |-> op, status |-> 0, word_ids |-> {}, args |-> args]
    /\ UNCHANGED <<dictionaries, words, userwords, nextId, inflight>>

CallAddWord(p) ==
    /\ progress' = [progress EXCEPT ![StoreDict] = add_word(@, p)]
    /\ Call("add_word", <<p>>)

CallRemoveWord(p) ==
    /\ progress' = [progress EXCEPT ![StoreDict] = remove_word(@, p)]
    /\ Call("remove_word", <<p>>)

CallUpdateWord(old_progress, new_progress) ==
    /\ progress' = [progress EXCEPT ![StoreDict] = update_word(@, old_progress, new_progress)]
    /\ Call("update_word", <<old_progress, new_progress>>)

NextStore ==
    \/ \E p \in StoreProgress : CallAddWord(p)
    \/ \E p \in StoreProgress : CallRemoveWord(p)
    \/ \E o, n \in StoreProgress : CallUpdateWord(o, n)

StoreSpec == Init /\ [][NextStore]_vars

\* ------------------------------------------------------------ properties
RECURSIVE SumProgress(_, _)
SumProgress(db, S) ==
    IF S = {} THEN 0
    ELSE LET w == CHOOSE x \in S : TRUE
         IN  ProgressOf(db, w) + SumProgress(db, S \ {w})

Groups == {"0_2", "3_4", "5_6", "7_8", "9_10"}

Counter(dp, g) ==
    CASE g = "0_2" -> dp.group_0_2
      [] g = "3_4" -> dp.group_3_4
      [] g = "5_6" -> dp.group_5_6
      [] g = "7_8" -> dp.group_7_8
      [] g = "9_10" -> dp.group_9_10

\* the closed range each counter is documented to count (models.py:356-360)
RangeOf(g) ==
    CASE g = "0_2" -> <<0, 2>>
      [] g = "3_4" -> <<3, 4>>
      [] g = "5_6" -> <<5, 6>>
      [] g = "7_8" -> <<7, 8>>
      [] g = "9_10" -> <<9, 10>>

InRange(p, g) == RangeOf(g)[1] * Unit <= p /\ p <= RangeOf(g)[2] * Unit

BucketSum(dp) ==
    dp.group_0_2 + dp.group_3_4 + dp.group_5_6 + dp.group_7_8 + dp.group_9_10

\* what a dictionary's aggregates are
Aggregate(db, d) == <<db.progress[d], db.dictionaries[d].word_count>>

\* one DELETE /words/<w>/ per element of order, each its own transaction
RECURSIVE SeqDelete(_, _)
SeqDelete(db, order) ==
    IF order = <<>> THEN db
    ELSE SeqDelete(Word_delete(db, Head(order)).db, Tail(order))

RECURSIVE RemoveAll(_, _)
RemoveAll(dp, ps) ==
    IF ps = <<>> THEN dp
    ELSE RemoveAll(remove_word(dp, Head(ps)), Tail(ps))

Deleted == lastOp.op = "delete" /\ lastOp.status = 204
BulkDeleted == lastOp.op = "bulk_delete" /\ lastOp.status = 200
Created == lastOp.op = "create"

\* C1: after any sequence of creations, progress updates, single and bulk
\* deletions, total_progress of every dictionary is the sum of the progress
\* of the words now in it.
C1_TotalIsLiveSum ==
    \A d \in DOMAIN progress :
        progress[d].total_progress = SumProgress(DB, WordsOf(DB, d))

\* C2: after every word creation and every single or bulk deletion,
\* max_progress is word_count * 10.
C2_MaxIsTenPerCountedWord ==
    (Created \/ Deleted \/ BulkDeleted) =>
        \A d \in DOMAIN progress :
            progress[d].max_progress = dictionaries[d].word_count * MaxPerWord * Unit

\* C3: word_count of every dictionary is the number of Word rows that
\* reference it.
C3_WordCountIsLiveCount ==
    \A d \in DOMAIN dictionaries :
        dictionaries[d].word_count = Cardinality(WordsOf(DB, d))

\* C4: with every progress value in [0,10], the five bucket counters of a
\* dictionary add up to its word_count.
C4_BucketsSumToWordCount ==
    (\A w \in DOMAIN userwords :
        0 <= userwords[w].progress /\ userwords[w].progress <= MaxPerWord * Unit)
    => \A d \in DOMAIN progress :
           BucketSum(progress[d]) = dictionaries[d].word_count

\* C5: each bucket counter is the number of words of the dictionary whose
\* progress lies in the counter's range.
C5_BucketIsLiveCount ==
    \A d \in DOMAIN progress : \A g \in Groups :
        Counter(progress[d], g) =
            Cardinality({w \in WordsOf(DB, d) : InRange(ProgressOf(DB, w), g)})

\* C6: a bulk delete of words of one dictionary ends in the same aggregates
\* (DictionaryProgress row and word_count) as deleting the same words one
\* at a time, in whatever order.
C6_BulkEqualsSequential ==
    [][(lastOp'.op = "bulk_delete"
        /\ lastOp'.word_ids # {}
        /\ lastOp'.word_ids \subseteq DOMAIN words
        /\ Cardinality({words[w].dictionary : w \in lastOp'.word_ids}) = 1)
       => \A order \in Perms(lastOp'.word_ids) :
            LET d == words[order[1]].dictionary
            IN  Aggregate(DB', d) = Aggregate(SeqDelete(DB, order), d)]_vars

\* C7: one word deletion takes exactly 10 off max_progress and exactly 1
\* off the bucket counter of the word's progress.
C7_DeleteRemovesOnce ==
    [][(lastOp'.op = "delete" /\ lastOp'.status = 204)
       => \A w \in lastOp'.word_ids \cap DOMAIN words :
            LET d == words[w].dictionary
                g == _get_group(ProgressOf(DB, w))
            IN  /\ progress'[d].max_progress =
                      progress[d].max_progress - MaxPerWord * Unit
                /\ g # None =>
                      Counter(progress'[d], g) = Counter(progress[d], g) - 1]_vars

\* C8: a word creation changes word_count by exactly +1 and a single-word
\* deletion by exactly -1.
C8_WordCountStepsByOne ==
    [][/\ lastOp'.op = "create" =>
            \A w \in lastOp'.word_ids :
                dictionaries'[words'[w].dictionary].word_count =
                    dictionaries[words'[w].dictionary].word_count + 1
       /\ (lastOp'.op = "delete" /\ lastOp'.status = 204) =>
            \A w \in lastOp'.word_ids \cap DOMAIN words :
                dictionaries'[words[w].dictionary].word_count =
                    dictionaries[words[w].dictionary].word_count - 1]_vars

SameTotalAndBuckets(dp1, dp2) ==
    /\ dp1.total_progress = dp2.total_progress
    /\ \A g \in Groups : Counter(dp1, g) = Counter(dp2, g)

RECURSIVE CreateAll(_, _, _)
CreateAll(db, ps, w) ==
    IF ps = <<>> THEN db
    ELSE CreateAll(WordSerializer_create(db, w, StoreDict, Head(ps)), Tail(ps), w + 1)

EmptyDB ==
    [dictionaries |-> [d \in Dicts |-> [user_id |-> d, word_count |-> 0]],
     words |-> <<>>, userwords |-> <<>>,
     progress |-> [d \in Dicts |-> NewDictionaryProgress]]

\* the dictionaries of Init after up to MaxWords words were created in
\* StoreDict
InitPopulated ==
    \E n \in 0..MaxWords : \E ps \in [1..n -> SeedProgress] :
        LET db == CreateAll(EmptyDB, ps, 1)
        IN  /\ dictionaries = db.dictionaries
            /\ words = db.words
            /\ userwords = db.userwords
            /\ progress = db.progress
            /\ nextId = n + 1
            /\ steps = 0
            /\ lastOp = Op("init", 0, {})
            /\ inflight = <<>>

Direct(op, args) ==
    /\ steps < MaxDirect
    /\ steps' = steps + 1
    /\ lastOp' = [op |-> op, status |-> 0, word_ids |-> {}, args |-> args]
    /\ UNCHANGED <<dictionaries, words, userwords, nextId, inflight>>

DirectAddWord(p) ==
    /\ progress' = [progress EXCEPT ![StoreDict] = add_word(@, p)]
    /\ Direct("add_word", <<p>>)

DirectRemoveWord(p) ==
    /\ progress' = [progress EXCEPT ![StoreDict] = remove_word(@, p)]
    /\ Direct("remove_word", <<p>>)

DirectUpdateWord(old_progress, new_progress) ==
    /\ progress' = [progress EXCEPT ![StoreDict] = update_word(@, old_progress, new_progress)]
    /\ Direct("update_word", <<old_progress, new_progress>>)

NextMethod ==
    \/ \E p \in MethodProgress : DirectAddWord(p)
    \/ \E p \in MethodProgress : DirectRemoveWord(p)
    \/ \E o, n \in MethodProgress : DirectUpdateWord(o, n)

MethodSpec == InitPopulated /\ [][NextMethod]_vars

\* the row of StoreDict before and after the step
Row == progress[StoreDict]

\* counter g after one floored decrement for progress p
AfterDecrement(dp, g, p) ==
    IF _get_group(p) = g THEN Max0(Counter(dp, g) - 1) ELSE Counter(dp, g)

\* the percentage the row's own total_progress and max_progress give
PercentOf(dp) ==
    IF dp.max_progress > 0
    THEN RoundedPercent(dp.total_progress, dp.max_progress)
    ELSE 0

\* C11: the bucketing function returns one of the five buckets for every
\* progress in [0,10], whole or not, and no bucket outside [0,10].
C11_GetGroupTotalOnRange ==
    lastOp.op \in {"add_word", "remove_word", "update_word"} =>
        LET p == lastOp.args[1]
        IN  IF 0 <= p /\ p <= MaxPerWord * Unit
            THEN _get_group(p) \in Groups
            ELSE _get_group(p) = None

\* C12: add_word(2) increments group_0_2, add_word(3) group_3_4,
\* add_word(10) group_9_10, each by one and no other counter; add_word(-1)
\* and add_word(11) change no counter.
C12_AddWordBoundaries ==
    [][lastOp'.op = "add_word"
       => LET p == lastOp'.args[1]
              hit == IF p = 2 * Unit THEN "0_2"
                     ELSE IF p = 3 * Unit THEN "3_4"
                     ELSE IF p = 10 * Unit THEN "9_10"
                     ELSE None
          IN  p \in {-1 * Unit, 2 * Unit, 3 * Unit, 10 * Unit, 11 * Unit}
              => \A g \in Groups :
                   Counter(Row', g) = Counter(Row, g) + (IF g = hit THEN 1 ELSE 0)]_vars

\* add_word(3) has just put the first word into group_3_4
C12_Witness ==
    /\ lastOp.op = "add_word"
    /\ lastOp.args[1] = 3 * Unit
    /\ Row.group_3_4 = 1

\* C13: add_word(p) adds p to total_progress, 1 to the counter of p's
\* bucket, 10 to max_progress, and sets overall_progress from the new
\* max_progress; add_word(5) on an empty dictionary gives total 5, max 10,
\* overall 50, group_5_6 1 and the other counters 0.
C13_AddWordEffect ==
    [][lastOp'.op = "add_word"
       => LET p == lastOp'.args[1]
          IN  /\ Row'.total_progress = Row.total_progress + p
              /\ \A g \in Groups :
                    Counter(Row', g) =
                        Counter(Row, g) + (IF InRange(p, g) THEN 1 ELSE 0)
              /\ Row'.max_progress = Row.max_progress + MaxPerWord * Unit
              /\ Row'.overall_progress =
                    (IF Row.max_progress + MaxPerWord * Unit > 0
                     THEN RoundedPercent(Row.total_progress + p,
                                         Row.max_progress + MaxPerWord * Unit)
                     ELSE 0)
              /\ (p = 5 * Unit /\ Row = NewDictionaryProgress)
                    => Row' = [total_progress |-> 5 * Unit,
                               overall_progress |-> 50 * Thousandths,
                               max_progress |-> 10 * Unit,
                               group_0_2 |-> 0, group_3_4 |-> 0, group_5_6 |-> 1,
                               group_7_8 |-> 0, group_9_10 |-> 0]]_vars

\* add_word(5) has just run on the row of an empty dictionary
C13_Witness ==
    /\ lastOp.op = "add_word"
    /\ lastOp.args[1] = 5 * Unit
    /\ Row.max_progress = 10 * Unit
    /\ Row.group_5_6 = 1
    /\ words = <<>>

\* the row of a dictionary holding words of progress 0, 5 and 10
Row_0_5_10 ==
    [total_progress |-> 15 * Unit, overall_progress |-> 50 * Thousandths,
     max_progress |-> 30 * Unit, group_0_2 |-> 1, group_3_4 |-> 0,
     group_5_6 |-> 1, group_7_8 |-> 0, group_9_10 |-> 1]

RemoveWordExample ==
    (lastOp'.args[1] = 10 * Unit /\ Row = Row_0_5_10)
        => /\ Row'.total_progress = 5 * Unit
           /\ Row'.max_progress = 20 * Unit
           /\ Row'.overall_progress = 25 * Thousandths
           /\ Row'.group_9_10 = 0

\* C14 as stated: remove_word(p) always subtracts p from total_progress,
\* decrements the counter of p's bucket (floored at 0), subtracts 10 from
\* max_progress and recomputes overall_progress; from words [0,5,10]
\* remove_word(10) gives total 5, max 20, overall 25, group_9_10 0.
C14_RemoveWordSubtracts ==
    [][lastOp'.op = "remove_word"
       => LET p == lastOp'.args[1]
          IN  /\ Row'.total_progress = Row.total_progress - p
              /\ \A g \in Groups : Counter(Row', g) = AfterDecrement(Row, g, p)
              /\ Row'.max_progress = Row.max_progress - MaxPerWord * Unit
              /\ Row'.overall_progress = PercentOf(Row')
              /\ RemoveWordExample]_vars

\* C14 amended: as stated while the new max_progress is above 0; when it
\* is 0 or below, total_progress and overall_progress are set to 0.
C14_RemoveWordEffect ==
    [][lastOp'.op = "remove_word"
       => LET p == lastOp'.args[1]
          IN  /\ Row'.total_progress =
                    (IF Row.max_progress - MaxPerWord * Unit > 0
                     THEN Row.total_progress - p ELSE 0)
              /\ \A g \in Groups : Counter(Row', g) = AfterDecrement(Row, g, p)
              /\ Row'.max_progress = Row.max_progress - MaxPerWord * Unit
              /\ Row'.overall_progress = PercentOf(Row')
              /\ RemoveWordExample]_vars

\* remove_word(10) has just run on the row of words [0,5,10]
C14_Witness ==
    /\ lastOp.op = "remove_word"
    /\ lastOp.args[1] = 10 * Unit
    /\ Cardinality(DOMAIN words) = 3
    /\ Row.total_progress = 5 * Unit
    /\ Row.max_progress = 20 * Unit
    /\ Row.group_0_2 = 1 /\ Row.group_5_6 = 1 /\ Row.group_9_10 = 0

\* C15: update_word(old, new) adds new - old to total_progress, takes one
\* (floored at 0) off the counter of old's bucket and adds one to the
\* counter of new's; update_word(2, 9) with group_0_2 = 1, group_9_10 = 0
\* ends with group_0_2 = 0, group_9_10 = 1 and total_progress 7 higher.
C15_UpdateWordEffect ==
    [][lastOp'.op = "update_word"
       => LET o == lastOp'.args[1]
              n == lastOp'.args[2]
          IN  /\ Row'.total_progress = Row.total_progress + (n - o)
              /\ \A g \in Groups :
                    Counter(Row', g) =
                        AfterDecrement(Row, g, o) + (IF InRange(n, g) THEN 1 ELSE 0)
              /\ (o = 2 * Unit /\ n = 9 * Unit
                    /\ Row.group_0_2 = 1 /\ Row.group_9_10 = 0)
                    => /\ Row'.group_0_2 = 0
                       /\ Row'.group_9_10 = 1
                       /\ Row'.total_progress = Row.total_progress + 7 * Unit]_vars

\* update_word(2, 9) has just run on the row of a dictionary whose one
\* word is in group_0_2
C15_Witness ==
    /\ lastOp.op = "update_word"
    /\ lastOp.args = <<2 * Unit, 9 * Unit>>
    /\ Cardinality(DOMAIN words) = 1
    /\ Row.max_progress = 10 * Unit
    /\ Row.total_progress = 7 * Unit
    /\ Row.group_0_2 = 0 /\ Row.group_5_6 = 0 /\ Row.group_9_10 = 1

\* a step that deleted the words lastOp'.word_ids, one by one or in bulk
DeletionStep ==
    \/ lastOp'.op = "delete" /\ lastOp'.status = 204
    \/ lastOp'.op = "bulk_delete" /\ lastOp'.status = 200

\* C16: when a deletion (Word.delete or bulk delete, each ending in
\* remove_word) leaves max_progress at 0 or below, the stored row has
\* total_progress = 0 and overall_progress = 0.
C16_ZeroedWhenEmptied ==
    [][DeletionStep
       => \A w \in lastOp'.word_ids \cap DOMAIN words :
            LET d == words[w].dictionary
            IN  progress'[d].max_progress <= 0
                => /\ progress'[d].total_progress = 0
                   /\ progress'[d].overall_progress = 0]_vars

\* the only word ever created, of positive progress, has just been
\* bulk-deleted
C16_Witness ==
    /\ BulkDeleted
    /\ nextId = 2
    /\ words = <<>>
    /\ \E d \in DOMAIN progress : progress[d].max_progress < 0

\* C17: with every word progress in [0,10], overall_progress stays between
\* 0 and 100.
C17_OverallWithinPercent ==
    \A d \in DOMAIN progress :
        /\ 0 <= progress[d].overall_progress
        /\ progress[d].overall_progress <= Percent * Thousandths

\* C18: the stored overall_progress is round(total_progress / max_progress
\* * 100, 3) of the stored total_progress and max_progress when
\* max_progress > 0, and 0 otherwise.
C18_OverallMatchesStoredFields ==
    \A d \in DOMAIN progress : progress[d].overall_progress = PercentOf(progress[d])

\* a progress update has just left a dictionary with a positive percentage
C18_Witness ==
    /\ lastOp.op = "update"
    /\ \E d \in DOMAIN progress :
         /\ progress[d].max_progress > 0
         /\ progress[d].overall_progress > 0

\* C19: no stored row has a negative max_progress or total_progress.
C19_NoNegativeAggregates ==
    \A d \in DOMAIN progress :
        /\ progress[d].max_progress >= 0
        /\ progress[d].total_progress >= 0

\* C20: bucket counters are never negative, and the bulk delete of words of
\* one dictionary takes its per-bucket deletion counts off the counters
\* floored at 0: no counter ends above max(0, counter - deleted).
C20_BucketDecrementsFloored ==
    [][/\ \A d \in DOMAIN progress' : \A g \in Groups : Counter(progress'[d], g) >= 0
       /\ (/\ lastOp'.op = "bulk_delete"
           /\ lastOp'.word_ids # {}
           /\ lastOp'.word_ids \subseteq DOMAIN words
           /\ Cardinality({words[w].dictionary : w \in lastOp'.word_ids}) = 1)
          => \A w \in lastOp'.word_ids : \A g \in Groups :
               Counter(progress'[words[w].dictionary], g) <=
                   Max0(Counter(progress[words[w].dictionary], g)
                          - GroupsDeleted(DB, lastOp'.word_ids, g))]_vars

\* C22: a bulk delete that fails at any step persists nothing (no
\* word_count change, no DictionaryProgress change, no word deleted); one
\* that succeeds persists all three.
C22_BulkAllOrNothing ==
    [][lastOp'.op = "bulk_delete"
       => IF lastOp'.status = 200
          THEN \A w \in lastOp'.word_ids \cap DOMAIN words :
                 LET d == words[w].dictionary
                 IN  /\ lastOp'.word_ids \cap DOMAIN words' = {}
                     /\ dictionaries'[d].word_count < dictionaries[d].word_count
                     /\ progress'[d].max_progress < progress[d].max_progress
          ELSE DB' = DB]_vars

\* a bulk delete of existing words of one dictionary has just failed in the
\* DictionaryProgress update, after the word_count update had been made
C22_Witness ==
    /\ lastOp.op = "bulk_delete"
    /\ lastOp.status = 500
    /\ lastOp.word_ids # {}
    /\ lastOp.word_ids \subseteq DOMAIN words
    /\ \E d \in DOMAIN dictionaries :
          /\ lastOp.word_ids \subseteq WordsOf(DB, d)
          /\ dictionaries[d].word_count >= Cardinality(lastOp.word_ids)

\* C25: a bulk delete whose ids belong to words of more than one dictionary
\* answers 400 and changes nothing.
C25_CrossDictionaryRejected ==
    [][(/\ lastOp'.op = "bulk_delete"
        /\ Cardinality({words[w].dictionary :
                            w \in lastOp'.word_ids \cap DOMAIN words}) > 1)
       => /\ lastOp'.status = 400
          /\ DB' = DB]_vars

\* a bulk delete naming words of both dictionaries has just been refused
C25_Witness ==
    /\ lastOp.op = "bulk_delete"
    /\ lastOp.status = 400
    /\ Cardinality({words[w].dictionary :
                        w \in lastOp.word_ids \cap DOMAIN words}) > 1

\* C26: a bulk_action request with an unknown (or no) action name, or with
\* word_ids missing, empty or not a list, answers 400 and leaves words,
\* UserWord rows, word_counts and DictionaryProgress rows unchanged.
C26_BadBulkRequestRejected ==
    [][(/\ lastOp'.op = "bulk_action"
        /\ \/ lastOp'.args[1] \notin {"delete", "disable_highlight", "enable_highlight"}
           \/ lastOp'.args[2] \in {"missing", "empty", "not_a_list"})
       => /\ lastOp'.status = 400
          /\ DB' = DB]_vars

\* an unknown action naming an existing word has just been refused
C26_Witness ==
    /\ lastOp.op = "bulk_action"
    /\ lastOp.args = <<"archive", "list">>
    /\ lastOp.word_ids \cap DOMAIN userwords # {}
    /\ lastOp.status = 400

\* C27: disable_highlight and enable_highlight set highlight_disabled on the
\* UserWord rows of the listed words and nothing else: every
\* DictionaryProgress, word_count, word progress and the set of words stay.
C27_HighlightTouchesOnlyFlag ==
    [][(/\ lastOp'.op = "bulk_action"
        /\ lastOp'.args[1] \in {"disable_highlight", "enable_highlight"}
        /\ lastOp'.args[2] = "list")
       => /\ lastOp'.status = 200
          /\ progress' = progress
          /\ dictionaries' = dictionaries
          /\ words' = words
          /\ DOMAIN userwords' = DOMAIN userwords
          /\ \A w \in DOMAIN userwords :
                userwords'[w] =
                    IF w \in lastOp'.word_ids
                    THEN [userwords[w] EXCEPT !.highlight_disabled =
                             (lastOp'.args[1] = "disable_highlight")]
                    ELSE userwords[w]]_vars

\* disable_highlight has just set the flag of a listed word and left an
\* unlisted word's flag off
C27_Witness ==
    /\ lastOp.op = "bulk_action"
    /\ lastOp.args = <<"disable_highlight", "list">>
    /\ \E w \in lastOp.word_ids \cap DOMAIN userwords :
          userwords[w].highlight_disabled
    /\ \E w \in DOMAIN userwords \ lastOp.word_ids :
          ~userwords[w].highlight_disabled

\* the request just served was a word operation on a dictionary that has no
\* DictionaryProgress row
OnDictionaryWithoutProgress ==
    /\ lastOp'.op \in {"create", "update", "delete", "bulk_delete"}
    /\ lastOp'.word_ids # {}
    /\ lastOp'.word_ids \subseteq DOMAIN words \cup DOMAIN words'
    /\ \A w \in lastOp'.word_ids :
          (IF w \in DOMAIN words THEN words[w].dictionary
           ELSE words'[w].dictionary) = LegacyDict

\* C24: on a dictionary without DictionaryProgress every word operation
\* (create, progress update, single delete, bulk delete) succeeds and the
\* progress mutation is skipped.
C24_SucceedsWithoutProgress ==
    [][OnDictionaryWithoutProgress
       => /\ lastOp'.status \in {200, 201, 204}
          /\ progress' = progress]_vars

\* C23: a Word.delete that fails at any point, receivers included, leaves
\* word_count, DictionaryProgress and the word rows as they were.
C23_DeleteAllOrNothing ==
    [][(lastOp'.op = "delete" /\ lastOp'.status # 204) => DB' = DB]_vars

\* the deletion of a word lying in a dictionary whose word_count is 0 has
\* just failed in the word_count update, after the DictionaryProgress writes
C23_Witness ==
    /\ lastOp.op = "delete"
    /\ lastOp.status = 500
    /\ \E w \in lastOp.word_ids \cap DOMAIN words :
          /\ words[w].dictionary \in DOMAIN progress
          /\ dictionaries[words[w].dictionary].word_count = 0

\* C30: update_word, on any stored row and with any arguments, and the
\* word-update request never change max_progress or word_count.
C30_UpdateKeepsMaxAndCount ==
    [][/\ \A d \in DOMAIN progress' : \A o, n \in StoreProgress :
            update_word(progress'[d], o, n).max_progress = progress'[d].max_progress
       /\ lastOp'.op = "update"
            => \A d \in DOMAIN dictionaries :
                 /\ dictionaries'[d].word_count = dictionaries[d].word_count
                 /\ progress'[d].max_progress = progress[d].max_progress]_vars

\* an update has just moved a word into a dictionary that counts no word
\* and update_word has raised that dictionary's total_progress
C30_Witness ==
    /\ lastOp.op = "update"
    /\ \E w \in lastOp.word_ids :
          LET d == words[w].dictionary
          IN  /\ dictionaries[d].word_count = 0
              /\ progress[d].max_progress = 0
              /\ progress[d].total_progress > 0

\* C28: every existing Dictionary has exactly one DictionaryProgress row
\* from its creation to its deletion (and no row outlives its dictionary),
\* and the row starts with total_progress, max_progress, overall_progress
\* and the five counters at 0.
C28_OneProgressPerDictionary ==
    [][/\ DOMAIN progress' = DOMAIN dictionaries'
       /\ lastOp'.op = "create_dictionary"
            => /\ lastOp'.args[1] \notin DOMAIN progress
               /\ progress'[lastOp'.args[1]] =
                     [total_progress |-> 0, overall_progress |-> 0,
                      max_progress |-> 0, group_0_2 |-> 0, group_3_4 |-> 0,
                      group_5_6 |-> 0, group_7_8 |-> 0, group_9_10 |-> 0]]_vars

\* a dictionary has just been created next to one that already holds words
C28_Witness ==
    /\ lastOp.op = "create_dictionary"
    /\ Cardinality(DOMAIN dictionaries) = 2
    /\ words # <<>>
    /\ progress[lastOp.args[1]].max_progress = 0

\* --------------------------------- requests served statement by statement
\* Two server workers, each serving one request.  A step is one SQL
\* statement (or a run of statements on rows no other request touches);
\* outside transaction.atomic() every statement commits on its own.  A
\* "with transaction.atomic()" block (Word.delete, the bulk delete) is one
\* step: its first UPDATE locks the row to the commit.
Procs == {1, 2}

\* a worker before its request: no object loaded
IdleRequest ==
    [op |-> "none", pc |-> "idle", w |-> 0, d |-> StoreDict, ids |-> {},
     has_progress |-> FALSE, p |-> 0, old |-> 0, hl |-> FALSE,
     dp |-> NewDictionaryProgress, status |-> 0, calls |-> <<>>]

\* a worker that serves nothing
NoRequest == [IdleRequest EXCEPT !.pc = "done"]

Req(i) == inflight.reqs[i]

SetReq(i, r) ==
    inflight' = [inflight EXCEPT !.reqs[i] = r]

\* the words of InitPopulated, in a dictionary with its DictionaryProgress
\* row or (see InitLegacy) without it, and the workers
InitRequests(reqs) ==
    \E n \in 0..MaxWords : \E ps \in [1..n -> SeedProgress] : \E has_row \in BOOLEAN :
        LET db0 == IF has_row THEN EmptyDB
                   ELSE [EmptyDB EXCEPT !.progress = Without(@, {StoreDict})]
            db == CreateAll(db0, ps, 1)
        IN  /\ dictionaries = db.dictionaries
            /\ words = db.words
            /\ userwords = db.userwords
            /\ progress = db.progress
            /\ nextId = n + 1
            /\ steps = 0
            /\ lastOp = Op("init", 0, {})
            /\ inflight = [start |-> db, reqs |-> reqs]

\* POST /words/: Word.objects.create and UserWord.objects.create
\* (serializers.py:73-88)
BeginCreate(i, p) ==
    /\ Req(i).pc = "idle"
    /\ Commit(CreateRows(DB, nextId, StoreDict, p))
    /\ nextId' = nextId + 1
    /\ SetReq(i, [Req(i) EXCEPT !.op = "create", !.pc = "create_read",
                                !.w = nextId, !.p = p])
    /\ UNCHANGED <<steps, lastOp>>

\* hasattr(dictionary, 'progress'): the row is loaded (serializers.py:94)
CreateRead(i) ==
    /\ Req(i).pc = "create_read"
    /\ IF Req(i).d \in DOMAIN progress
       THEN SetReq(i, [Req(i) EXCEPT !.pc = "create_write",
                                     !.dp = progress[Req(i).d]])
       ELSE SetReq(i, [Req(i) EXCEPT !.pc = "done", !.status = 201])
    /\ UNCHANGED <<dictionaries, words, userwords, progress, nextId, steps, lastOp>>

\* dictionary.progress.add_word(progress): the loaded object is changed
\* and save() writes all its fields (serializers.py:95, models.py:431)
CreateWrite(i) ==
    /\ Req(i).pc = "create_write"
    /\ progress' = [progress EXCEPT ![Req(i).d] = add_word(Req(i).dp, Req(i).p)]
    /\ SetReq(i, [Req(i) EXCEPT !.pc = "done", !.status = 201])
    /\ UNCHANGED <<dictionaries, words, userwords, nextId, steps, lastOp>>

\* PUT /words/<w>/: instance.save(), instance.userword loaded (or created)
\* and old_progress read (serializers.py:105-127)
BeginUpdate(i, w, has_progress, p) ==
    /\ Req(i).pc = "idle"
    /\ w \in DOMAIN words
    /\ LET db2 == UpdateRows(DB, w, words[w].dictionary)
           old == old_progress_of(db2.userwords[w], p)
       IN  /\ Commit(db2)
           /\ SetReq(i, [Req(i) EXCEPT
                  !.op = "update", !.w = w, !.d = words[w].dictionary,
                  !.has_progress = has_progress, !.p = p, !.old = old,
                  !.hl = db2.userwords[w].highlight_disabled,
                  !.pc = IF has_progress /\ old # p THEN "update_read"
                         ELSE "update_save"])
    /\ UNCHANGED <<nextId, steps, lastOp>>

\* hasattr(dictionary, 'progress') (serializers.py:129-130)
UpdateRead(i) ==
    /\ Req(i).pc = "update_read"
    /\ IF Req(i).d \in DOMAIN progress
       THEN SetReq(i, [Req(i) EXCEPT !.pc = "update_write",
                                     !.dp = progress[Req(i).d]])
       ELSE SetReq(i, [Req(i) EXCEPT !.pc = "update_save"])
    /\ UNCHANGED <<dictionaries, words, userwords, progress, nextId, steps, lastOp>>

\* dictionary.progress.update_word(old_progress, progress)
\* (serializers.py:131, models.py:469)
UpdateWrite(i) ==
    /\ Req(i).pc = "update_write"
    /\ progress' = [progress EXCEPT ![Req(i).d] =
                        update_word(Req(i).dp, Req(i).old, Req(i).p)]
    /\ SetReq(i, [Req(i) EXCEPT !.pc = "update_save",
                                !.calls = Append(@, <<Req(i).old, Req(i).p>>)])
    /\ UNCHANGED <<dictionaries, words, userwords, nextId, steps, lastOp>>

\* userword.progress = progress ... userword.save() (serializers.py:132-139):
\* the loaded UserWord is written whole; when its row is gone with its Word,
\* save() inserts it again and the foreign key refuses
UpdateSave(i) ==
    /\ Req(i).pc = "update_save"
    /\ IF Req(i).w \in DOMAIN userwords
       THEN /\ userwords' = [userwords EXCEPT ![Req(i).w] =
                    [progress |-> IF Req(i).has_progress THEN Req(i).p
                                  ELSE Req(i).old,
                     highlight_disabled |-> Req(i).hl]]
            /\ SetReq(i, [Req(i) EXCEPT !.pc = "done", !.status = 200])
       ELSE /\ UNCHANGED userwords
            /\ SetReq(i, [Req(i) EXCEPT !.pc = "done", !.status = 500])
    /\ UNCHANGED <<dictionaries, words, progress, nextId, steps, lastOp>>

\* DELETE /words/<w>/: Word.delete, one transaction
BeginDelete(i, w) ==
    /\ Req(i).pc = "idle"
    /\ w \in DOMAIN words
    /\ LET r == Word_delete(DB, w)
       IN  /\ Commit(r.db)
           /\ SetReq(i, [Req(i) EXCEPT !.op = "delete", !.w = w,
                                       !.d = words[w].dictionary, !.pc = "done",
                                       !.status = IF r.ok THEN 204 ELSE 500])
    /\ UNCHANGED <<nextId, steps, lastOp>>

\* POST /words/bulk_action/ delete: one transaction
BeginBulkDelete(i, ids) ==
    /\ Req(i).pc = "idle"
    /\ ids # {}
    /\ \E order \in Perms(ids) :
          LET r == BulkWordActionView_post(
                       DB, [action |-> "delete", word_ids |-> JsonList(ids)], order)
          IN  /\ Commit(r.db)
              /\ SetReq(i, [Req(i) EXCEPT !.op = "bulk_delete", !.ids = ids,
                                          !.pc = "done", !.status = r.status])
    /\ UNCHANGED <<nextId, steps, lastOp>>

NextRequests ==
    \E i \in Procs :
        \/ \E p \in ProgressInputs : BeginCreate(i, p)
        \/ CreateRead(i)
        \/ CreateWrite(i)
        \/ \E w \in DOMAIN words, hp \in BOOLEAN, p \in ProgressInputs :
              BeginUpdate(i, w, hp, p)
        \/ UpdateRead(i)
        \/ UpdateWrite(i)
        \/ UpdateSave(i)
        \/ \E w \in DOMAIN words : BeginDelete(i, w)
        \/ \E ids \in SUBSET DOMAIN words : BeginBulkDelete(i, ids)

\* two requests that may overlap
ConcurrentSpec ==
    InitRequests([i \in Procs |-> IdleRequest]) /\ [][NextRequests]_vars

\* one request at a time: the second worker serves nothing
SoloSpec ==
    InitRequests([i \in Procs |-> IF i = 1 THEN IdleRequest ELSE NoRequest])
        /\ [][NextRequests]_vars

\* the request r served alone, in one piece, on db: the databases it can
\* leave (a word that is gone answers 404 and changes nothing)
Served(db, r) ==
    CASE r.op = "create" -> {WordSerializer_create(db, r.w, r.d, r.p)}
      [] r.op = "update" ->
            {IF r.w \in DOMAIN db.words
             THEN WordSerializer_update(db, r.w, db.words[r.w].dictionary,
                                        r.has_progress, r.p)
             ELSE db}
      [] r.op = "delete" ->
            {IF r.w \in DOMAIN db.words THEN Word_delete(db, r.w).db ELSE db}
      [] r.op = "bulk_delete" ->
            {BulkWordActionView_post(
                 db, [action |-> "delete", word_ids |-> JsonList(r.ids)], order).db :
               order \in Perms(r.ids \cap DOMAIN db.words)}

\* r1 served, then r2
ServedInOrder(db, r1, r2) == UNION {Served(x, r2) : x \in Served(db, r1)}

\* C21: whatever the interleaving of two concurrent word operations on one
\* dictionary, once both are done the dictionary's aggregate
\* (DictionaryProgress row and word_count) is what one of the two serial
\* orders leaves: no update is lost.
C21_ConcurrentIsSerial ==
    (/\ StoreDict \in DOMAIN progress
     /\ \A i \in Procs :
          /\ Req(i).pc = "done"
          /\ Req(i).op # "none"
          \* both requests are about words that were there before either began
          /\ Req(i).op \in {"update", "delete"}
               => Req(i).w \in DOMAIN inflight.start.words
          /\ Req(i).ids \subseteq DOMAIN inflight.start.words)
    => Aggregate(DB, StoreDict) \in
         {Aggregate(x, StoreDict) :
            x \in ServedInOrder(inflight.start, Req(1), Req(2))
                     \cup ServedInOrder(inflight.start, Req(2), Req(1))}

\* the update_word calls a finished update of word w must have made: one,
\* with the progress stored before the request and the submitted one, when
\* the two differ (and the dictionary has a DictionaryProgress), else none
ExpectedCalls(r) ==
    LET stored == ProgressOf(inflight.start, r.w)
    IN  IF r.has_progress /\ r.p # stored /\ r.d \in DOMAIN progress
        THEN << <<stored, r.p>> >>
        ELSE <<>>

\* C29 as stated: old progress captured before the UserWord is mutated, the
\* new value applied, and then update_word(old, new) called exactly once
\* (so whenever update_word has been called the UserWord already holds the
\* new value); not called when the submitted progress is the stored one.
C29_AppliedThenUpdateWord ==
    \A i \in Procs :
        Req(i).op = "update"
        => /\ Req(i).old = ProgressOf(inflight.start, Req(i).w)
           /\ Req(i).calls # <<>> => userwords[Req(i).w].progress = Req(i).p
           /\ Req(i).pc = "done" => Req(i).calls = ExpectedCalls(Req(i))

\* C29 amended: old progress captured before the UserWord is mutated, then
\* update_word(old, new) called exactly once, and only then the new value
\* applied and saved; not called when the submitted progress is the stored
\* one.  The request ends where WordSerializer.update served in one piece
\* ends.
C29_UpdateWordThenApplied ==
    \A i \in Procs :
        Req(i).op = "update"
        => LET r == Req(i)
               stored == ProgressOf(inflight.start, r.w)
           IN  /\ r.old = stored
               /\ r.pc \in {"update_read", "update_write"}
                    => r.calls = <<>> /\ userwords[r.w].progress = stored
               /\ r.pc = "update_save"
                    => r.calls = ExpectedCalls(r) /\ userwords[r.w].progress = stored
               /\ r.pc = "done"
                    => /\ r.calls = ExpectedCalls(r)
                       /\ r.status = 200
                       /\ userwords[r.w].progress =
                             (IF r.has_progress THEN r.p ELSE stored)
                       /\ DB = WordSerializer_update(inflight.start, r.w, r.d,
                                                     r.has_progress, r.p)

\* update_word has been called for a changed progress and the UserWord row
\* still holds the old value
C29_Witness ==
    \E i \in Procs :
        /\ Req(i).op = "update"
        /\ Req(i).pc = "update_save"
        /\ Req(i).calls = << <<Req(i).old, Req(i).p>> >>
        /\ Req(i).old # Req(i).p
        /\ userwords[Req(i).w].progress = Req(i).old
        /\ progress[Req(i).d].total_progress # inflight.start.progress[Req(i).d].total_progress

\* ------------------------------------------ the progress a deletion uses
\* the three UPDATEs of the bulk delete on the DictionaryProgress row, given
\* the progress values ps of the words deleted
BulkAdjusted(dp, ps) ==
    LET n == Len(ps)
        deleted(g) == Cardinality({i \in 1..n : _get_group(ps[i]) = g})
        d1 == [dp EXCEPT
                 !.total_progress = @ - SumSeq(ps),
                 !.max_progress = @ - n * MaxPerWord * Unit,
                 !.group_0_2 = @ - deleted("0_2"),
                 !.group_3_4 = @ - deleted("3_4"),
                 !.group_5_6 = @ - deleted("5_6"),
                 !.group_7_8 = @ - deleted("7_8"),
                 !.group_9_10 = @ - deleted("9_10")]
    IN  [d1 EXCEPT !.overall_progress = PercentOf(d1)]

\* C31: in a word deletion (single or bulk) every DictionaryProgress
\* adjustment uses the progress the word's UserWord row held before the
\* cascade removed it, never the 0.0 fallback: the row ends where the
\* adjustments made with the stored UserWord progress lead.
C31_DeletionUsesStoredProgress ==
    [][/\ (lastOp'.op = "delete" /\ lastOp'.status = 204)
          => \A w \in lastOp'.word_ids :
               LET d == words[w].dictionary
                   p == userwords[w].progress
               IN  progress'[d] = RemoveAll(progress[d], <<p, p>>)
       /\ (lastOp'.op = "bulk_delete" /\ lastOp'.status = 200)
          => LET found == lastOp'.word_ids \cap DOMAIN words
                 d == words[CHOOSE w \in found : TRUE].dictionary
             IN  \E order \in Perms(found) :
                    LET ps == [i \in 1..Len(order) |-> userwords[order[i]].progress]
                    IN  progress'[d] = RemoveAll(BulkAdjusted(progress[d], ps), ps)]_vars

\* a word of progress 10 has just been deleted, the first request after the
\* creations: its bucket counts fewer words than are left in it, and
\* total_progress was not reset
C31_Witness ==
    /\ lastOp.op = "delete"
    /\ lastOp.status = 204
    /\ steps = nextId
    /\ \E d \in DOMAIN progress :
          /\ progress[d].total_progress > 0
          /\ progress[d].group_9_10 <
                Cardinality({w \in WordsOf(DB, d) : _get_group(ProgressOf(DB, w)) = "9_10"})

\* ---------------------------- the bulk delete served statement by statement
\* The statements of the delete branch inside "with transaction.atomic()"
\* that write, in program order: the word_count UPDATE (views.py:347-350),
\* the DictionaryProgress relative UPDATE (353-361), the overall_progress
\* UPDATE (364-372) and Word.objects.filter(...).delete() (375)
BulkStatements_delete_first == <<"delete", "word_count", "progress", "overall">>

BulkStatements == <<"word_count", "progress", "overall", "delete">>

\* no bulk delete being served
NoBulk ==
    [pc |-> "idle", k |-> 0, ids |-> {}, order |-> <<>>, dict_id |-> StoreDict,
     p |-> <<>>, tx |-> EmptyDB, log |-> <<>>]

\* one statement of the block run on tx, the transaction's view of the
\* database; r holds what lines 319-344 read (dict_id, the progress p[w] of
\* every matched word) and the order in which the collector visits the rows
BulkStatement(s, tx, r) ==
    LET found == DOMAIN r.p
        delete_count == Cardinality(found)
        progress_sum == SumSeq([i \in 1..Len(r.order) |-> r.p[r.order[i]]])
        deleted(g) == Cardinality({w \in found : _get_group(r.p[w]) = g})
        dp == tx.progress[r.dict_id]
        new_overall == IF dp.max_progress > 0
                       THEN RoundedPercent(dp.total_progress, dp.max_progress)
                       ELSE 0
        tx1 == CASE s = "word_count" ->
                      [tx EXCEPT !.dictionaries[r.dict_id].word_count = @ - delete_count]
                 [] s = "progress" ->
                      [tx EXCEPT
                         !.progress[r.dict_id].total_progress = @ - progress_sum,
                         !.progress[r.dict_id].max_progress =
                              @ - delete_count * MaxPerWord * Unit,
                         !.progress[r.dict_id].group_0_2 = @ - deleted("0_2"),
                         !.progress[r.dict_id].group_3_4 = @ - deleted("3_4"),
                         !.progress[r.dict_id].group_5_6 = @ - deleted("5_6"),
                         !.progress[r.dict_id].group_7_8 = @ - deleted("7_8"),
                         !.progress[r.dict_id].group_9_10 = @ - deleted("9_10")]
                 [] s = "overall" ->
                      [tx EXCEPT !.progress[r.dict_id].overall_progress = new_overall]
                 [] s = "delete" -> tx
    IN  IF s = "delete" THEN CollectorDelete(tx, r.order)
        ELSE IF ViolatesCheck(tx1) THEN Raise(tx)
        ELSE Ok(tx1)

InitBulkSteps ==
    /\ dictionaries = [d \in Dicts |-> [user_id |-> d, word_count |-> 0]]
    /\ words = <<>>
    /\ userwords = <<>>
    /\ progress = [d \in Dicts |-> NewDictionaryProgress]
    /\ nextId = 1
    /\ steps = 0
    /\ lastOp = Op("init", 0, {})
    /\ inflight = NoBulk

\* lines 307-344: validation, the matched words, the one-dictionary test,
\* DictionaryProgress.objects.get and the loop reading every word's progress
BulkBegin(word_ids) ==
    /\ inflight.pc = "idle"
    /\ word_ids # {}
    /\ steps < MaxSteps
    /\ steps' = steps + 1
    /\ UNCHANGED <<dictionaries, words, userwords, progress, nextId>>
    /\ LET found == word_ids \cap DOMAIN words
           dict_ids == {words[w].dictionary : w \in found}
           dict_id == CHOOSE d \in dict_ids : TRUE
       IN  IF Cardinality(dict_ids) # 1
           THEN /\ lastOp' = Op("bulk_delete", 400, word_ids)
                /\ UNCHANGED inflight
           ELSE IF dict_id \notin DOMAIN progress
           THEN /\ lastOp' = Op("bulk_delete", 500, word_ids)
                /\ UNCHANGED inflight
           ELSE /\ \E order \in Perms(found) :
                     inflight' = [pc |-> "run", k |-> 1, ids |-> word_ids,
                                  order |-> order, dict_id |-> dict_id,
                                  p |-> [w \in found |-> ProgressOf(DB, w)],
                                  tx |-> DB, log |-> <<>>]
                /\ UNCHANGED lastOp

\* the next statement of the block; an exception leaves the block and the
\* transaction is rolled back (500)
BulkRun ==
    /\ inflight.pc = "run"
    /\ inflight.k <= Len(BulkStatements)
    /\ LET s == BulkStatements[inflight.k]
           r == BulkStatement(s, inflight.tx, inflight)
       IN  IF r.ok
           THEN /\ inflight' = [inflight EXCEPT !.k = @ + 1, !.tx = r.db,
                                                !.log = Append(@, s)]
                /\ UNCHANGED lastOp
           ELSE /\ inflight' = NoBulk
                /\ lastOp' = Op("bulk_delete", 500, inflight.ids)
    /\ UNCHANGED <<dictionaries, words, userwords, progress, nextId, steps>>

\* the block is left: commit, and line 377
BulkEnd ==
    /\ inflight.pc = "run"
    /\ inflight.k > Len(BulkStatements)
    /\ Commit(inflight.tx)
    /\ inflight' = NoBulk
    /\ lastOp' = Op("bulk_delete", 200, inflight.ids)
    /\ UNCHANGED <<nextId, steps>>

\* between bulk deletes: words created, and moved to another dictionary
NextBulkSteps ==
    \/ \E d \in Dicts, p \in BulkProgress :
          inflight.pc = "idle" /\ CreateWord(d, p)
    \/ \E w \in DOMAIN words, d \in Dicts :
          inflight.pc = "idle" /\ UpdateWord(w, d, FALSE, 0)
    \/ \E ids \in SUBSET WordIds : BulkBegin(ids)
    \/ BulkRun
    \/ BulkEnd

BulkStepsSpec == InitBulkSteps /\ [][NextBulkSteps]_vars

\* C32: in a bulk delete no word row is deleted before the word_count
\* update, the DictionaryProgress relative update and the overall_progress
\* update have all been issued: while any of the three is outstanding every
\* matched word is still there, and the rows go only with the last
\* statement.  The request ends where the view served in one piece ends.
C32_RowsDeletedLast ==
    [][/\ inflight'.pc = "run"
          => IF \E w \in DOMAIN inflight'.p : w \notin DOMAIN inflight'.tx.words
             THEN inflight'.log = <<"word_count", "progress", "overall", "delete">>
             ELSE /\ Len(inflight'.log) <= 3
                  /\ inflight'.log = SubSeq(<<"word_count", "progress", "overall">>,
                                            1, Len(inflight'.log))
       /\ (inflight.pc = "run" /\ inflight'.pc = "idle")
          => LET r == BulkDelete(DB, inflight.ids, inflight.order)
             IN  DB' = r.db /\ lastOp'.status = r.status]_vars

\* the three updates of a bulk delete of two words have been issued and the
\* rows have just been deleted, inside the transaction
C32_Witness ==
    /\ inflight.pc = "run"
    /\ inflight.log = <<"word_count", "progress", "overall", "delete">>
    /\ Cardinality(DOMAIN inflight.p) = 2
    /\ DOMAIN inflight.p \cap DOMAIN inflight.tx.words = {}
    /\ DOMAIN inflight.p \subseteq DOMAIN words

\* ------------------------------------------------- creations that can fail
\* POST /words/ with a count; the uuid of the Word is spent either way
CreateWordCounted(d, p, count_fits) ==
    /\ nextId <= MaxWords
    /\ d \in DOMAIN dictionaries
    /\ LET r == WordSerializer_create_counted(DB, nextId, d, p, count_fits)
       IN  /\ Commit(r.db)
           /\ lastOp' = Op("create", IF r.ok THEN 201 ELSE 500, {nextId})
    /\ nextId' = nextId + 1
    /\ Step

NextCounted ==
    \/ \E d \in Dicts, p \in ProgressInputs, count_fits \in BOOLEAN :
          CreateWordCounted(d, p, count_fits)
    \/ \E w \in DOMAIN words, hp \in BOOLEAN, p \in ProgressInputs :
          UpdateWord(w, words[w].dictionary, hp, p)
    \/ \E w \in WordIds : DeleteWord(w)
    \/ \E ids \in SUBSET WordIds : BulkDeleteWords(ids)

CountedSpec == Init /\ [][NextCounted]_vars

\* C33: a word creation that fails after the Word row is saved and before
\* add_word completes (here: creating the UserWord fails) persists no Word
\* row and no word_count increment, and leaves DictionaryProgress alone.
C33_FailedCreatePersistsNothing ==
    [][(lastOp'.op = "create" /\ lastOp'.status = 500)
       => /\ DOMAIN words' = DOMAIN words
          /\ dictionaries' = dictionaries
          /\ progress' = progress]_vars

\* the dictionaries of the words the request that has just been served
\* names: where the words were before it and where they are after it
Touched ==
    {words[w].dictionary : w \in lastOp'.word_ids \cap DOMAIN words}
        \cup {words'[w].dictionary : w \in lastOp'.word_ids \cap DOMAIN words'}

\* C34: a word create, progress update, single delete or bulk delete on
\* words of dictionary D leaves the word_count and the DictionaryProgress
\* of every other dictionary unchanged.
C34_OtherDictionariesUnchanged ==
    [][lastOp'.op \in {"create", "update", "delete", "bulk_delete"}
       => \A d \in DOMAIN dictionaries \ Touched :
            /\ d \in DOMAIN dictionaries'
            /\ dictionaries'[d].word_count = dictionaries[d].word_count
            /\ d \in DOMAIN progress => progress'[d] = progress[d]]_vars

\* a bulk delete, the only request so far that was not a creation, has
\* emptied one dictionary (its max_progress went below 0) while the other
\* dictionary holds words
C34_Witness ==
    /\ lastOp.op = "bulk_delete"
    /\ lastOp.status = 200
    /\ steps = nextId
    /\ \E d, e \in DOMAIN dictionaries :
          /\ d # e
          /\ WordsOf(DB, e) = {}
          /\ progress[e].max_progress < 0
          /\ WordsOf(DB, d) # {}
          /\ progress[d].max_progress > 0

\* C35: when a word update reassigns the word from dictionary D1 to
\* dictionary D2, afterwards word_count equals the live word count and
\* total_progress equals the live progress sum, for both D1 and D2.
C35_MoveKeepsAggregates ==
    [][lastOp'.op = "update"
       => \A w \in lastOp'.word_ids :
            words'[w].dictionary # words[w].dictionary
            => \A d \in {words[w].dictionary, words'[w].dictionary} :
                 /\ dictionaries'[d].word_count = Cardinality(WordsOf(DB', d))
                 /\ progress'[d].total_progress = SumProgress(DB', WordsOf(DB', d))]_vars

\* ------------------------------------------------ words without a UserWord
\* admin.py registers Word and UserWord with ModelAdmin: the admin site adds
\* a Word through Word.save alone (no UserWord, no add_word) and deletes a
\* UserWord row by itself (UserWord has no receivers)
WordAdmin_add(db, w, d) == Word_save(db, w, d, TRUE)

UserWordAdmin_delete(db, w) == [db EXCEPT !.userwords = Without(@, {w})]

AdminAddWord(d) ==
    /\ nextId <= MaxWords
    /\ d \in DOMAIN dictionaries
    /\ Commit(WordAdmin_add(DB, nextId, d))
    /\ nextId' = nextId + 1
    /\ lastOp' = Op("admin_add_word", 200, {nextId})
    /\ Step

AdminDeleteUserWord(w) ==
    /\ w \in DOMAIN userwords
    /\ Commit(UserWordAdmin_delete(DB, w))
    /\ lastOp' = Op("admin_delete_userword", 200, {w})
    /\ Step
    /\ UNCHANGED nextId

NextAdmin ==
    \/ \E d \in Dicts, p \in BulkProgress : CreateWord(d, p)
    \/ \E d \in Dicts : AdminAddWord(d)
    \/ \E w \in DOMAIN userwords : AdminDeleteUserWord(w)
    \/ \E w \in WordIds : DeleteWord(w)
    \/ \E ids \in SUBSET WordIds : BulkDeleteWords(ids)

AdminSpec == Init /\ [][NextAdmin]_vars

\* C36: deleting a word that has no UserWord record (single delete, or a
\* bulk delete of such words of one dictionary) treats its progress as 0.0:
\* the deletion does not fail, total_progress is not changed by a progress
\* term (it stays, or is reset to 0 with max_progress), and group_0_2 is
\* the only bucket counter that is decremented.
C36_NoUserWordCountsAsZero ==
    [][LET found == lastOp'.word_ids \cap DOMAIN words
       IN  (/\ lastOp'.op \in {"delete", "bulk_delete"}
            /\ found # {}
            /\ found \cap DOMAIN userwords = {}
            /\ Cardinality({words[w].dictionary : w \in found}) = 1)
           => \A w \in found :
                LET d == words[w].dictionary
                IN  /\ lastOp'.status \in {200, 204}
                    /\ w \notin DOMAIN words'
                    /\ progress'[d].total_progress \in {progress[d].total_progress, 0}
                    /\ progress'[d].group_0_2 <= progress[d].group_0_2
                    /\ \A g \in Groups \ {"0_2"} :
                          Counter(progress'[d], g) = Counter(progress[d], g)]_vars

\* C37: Dictionary.word_count is never negative in a persisted state, and a
\* deletion whose decrements (one by the view or Word.delete and one by the
\* post_delete receiver for every word) would take it below 0 ends with
\* word_count reset to 0.
C37_WordCountResetToZero ==
    [][/\ \A d \in DOMAIN dictionaries' : dictionaries'[d].word_count >= 0
       /\ LET found == lastOp'.word_ids \cap DOMAIN words
          IN  (/\ lastOp'.op \in {"delete", "bulk_delete"}
               /\ Cardinality({words[w].dictionary : w \in found}) = 1)
              => \A w \in found :
                   LET d == words[w].dictionary
                   IN  dictionaries[d].word_count < 2 * Cardinality(found)
                       => dictionaries'[d].word_count = 0]_vars

\* ------------------------------ concurrent creations, statement by statement
\* UPDATE ... SET word_count = loaded + delta: the value the request loaded
\* with its Dictionary instance written back, as dictionary.word_count += 1;
\* dictionary.save() would
RelativeUpdate_from_loaded(current, loaded, delta) == loaded + delta

\* .update(word_count=F('word_count') + delta): the database adds delta to
\* the value the row has when the statement runs
RelativeUpdate(current, loaded, delta) == current + delta

\* the words of InitPopulated and two workers about to serve POST /words/;
\* loaded[i] is the word_count of the Dictionary instance worker i fetched,
\* issued[i] the word_count increments it has issued
InitCreateRace ==
    \E n \in 0..MaxWords : \E ps \in [1..n -> SeedProgress] :
        LET db == CreateAll(EmptyDB, ps, 1)
        IN  /\ dictionaries = db.dictionaries
            /\ words = db.words
            /\ userwords = db.userwords
            /\ progress = db.progress
            /\ nextId = n + 1
            /\ steps = 0
            /\ lastOp = Op("init", 0, {})
            /\ inflight = [start |-> db,
                           reqs |-> [i \in Procs |-> IdleRequest],
                           loaded |-> [i \in Procs |-> 0],
                           issued |-> [i \in Procs |-> 0]]

\* validation fetches the Dictionary (PrimaryKeyRelatedField), Word.save
\* runs clean() and super().save() INSERTs the row (models.py:226-228)
RaceInsert(i, d, p) ==
    /\ Req(i).pc = "idle"
    /\ d \in DOMAIN dictionaries
    /\ words' = words @@ (nextId :> [dictionary |-> d])
    /\ nextId' = nextId + 1
    /\ inflight' = [inflight EXCEPT
           !.reqs[i] = [@ EXCEPT !.op = "create", !.pc = "race_post_save",
                                 !.w = nextId, !.d = d, !.p = p],
           !.loaded[i] = dictionaries[d].word_count]
    /\ UNCHANGED <<dictionaries, userwords, progress, steps, lastOp>>

\* one word_count increment of worker i, then on to pc
RaceIncrement(i, pc) ==
    /\ dictionaries' = [dictionaries EXCEPT ![Req(i).d].word_count =
                            RelativeUpdate(@, inflight.loaded[i], 1)]
    /\ inflight' = [inflight EXCEPT !.reqs[i].pc = pc, !.issued[i] = @ + 1]
    /\ UNCHANGED <<words, userwords, progress, nextId, steps, lastOp>>

\* post_save receiver increment_word_count (signals.py:88-93)
RacePostSave(i) ==
    /\ Req(i).pc = "race_post_save"
    /\ RaceIncrement(i, "race_save")

\* the update at the end of Word.save (models.py:240-244)
RaceSave(i) ==
    /\ Req(i).pc = "race_save"
    /\ RaceIncrement(i, "race_userword")

\* UserWord.objects.create (serializers.py:83-88); the DictionaryProgress
\* part of the method follows (CreateRead, CreateWrite)
RaceUserWord(i) ==
    /\ Req(i).pc = "race_userword"
    /\ userwords' = userwords @@ (Req(i).w :> NewUserWord(Req(i).p))
    /\ SetReq(i, [Req(i) EXCEPT !.pc = "create_read"])
    /\ UNCHANGED <<dictionaries, words, progress, nextId, steps, lastOp>>

NextCreateRace ==
    \E i \in Procs :
        \/ \E d \in Dicts, p \in BulkProgress : RaceInsert(i, d, p)
        \/ RacePostSave(i)
        \/ RaceSave(i)
        \/ RaceUserWord(i)
        \/ CreateRead(i)
        \/ CreateWrite(i)

CreateRaceSpec == InitCreateRace /\ [][NextCreateRace]_vars

\* the word_count increments issued so far for dictionary d
IssuedFor(d) ==
    LET of(i) == IF Req(i).op = "create" /\ Req(i).d = d
                 THEN inflight.issued[i] ELSE 0
    IN  of(1) + of(2)

\* C38: word_count is updated with atomic relative expressions, so for any
\* interleaving of concurrent word creations no increment is lost: at every
\* moment, and so when both requests are done, a dictionary's word_count is
\* its initial value plus all the increments issued for it.  A creation
\* that runs alone ends where WordSerializer.create served in one piece ends.
C38_NoIncrementLost ==
    /\ \A d \in DOMAIN dictionaries :
          dictionaries[d].word_count =
              inflight.start.dictionaries[d].word_count + IssuedFor(d)
    /\ \A i, j \in Procs :
          (Req(i).pc = "done" /\ Req(j).pc = "idle")
          => DB = WordSerializer_create(inflight.start, Req(i).w, Req(i).d, Req(i).p)

\* two creations in the same dictionary overlap: each has issued its first
\* increment and neither its second
C38_Witness ==
    /\ Req(1).pc = "race_save"
    /\ Req(2).pc = "race_save"
    /\ Req(1).d = Req(2).d
    /\ dictionaries[Req(1).d].word_count =
          inflight.start.dictionaries[Req(1).d].word_count + 2
    /\ inflight.loaded[1] = inflight.loaded[2]

\* ----------------------------------------------- who issues a bulk action
\* the authenticated users: the owners of the two dictionaries of Init
Users == {dictionaries[d].user_id : d \in DOMAIN dictionaries}

\* BulkWordActionView.post for request.user = user: permission_classes is
\* [IsAuthenticated] (views.py:265) and post never reads request.user; the
\* words are looked up by pk alone (views.py:319, 375, 380, 384)
BulkWordActionView_post_as(db, user, data, order) ==
    BulkWordActionView_post(db, data, order)

\* bodies with a known action and a non-empty list of word ids
OwnerBodies ==
    {[action |-> a, word_ids |-> JsonList(ids)] :
        a \in {"delete", "disable_highlight", "enable_highlight"},
        ids \in (SUBSET WordIds) \ {{}}}

\* POST /words/bulk_action/ issued by user
BulkActionAs(user, data) ==
    LET ids == data.word_ids.ids
        orders == IF data.action = "delete"
                  THEN Perms(ids \cap DOMAIN words) ELSE {<<>>}
    IN  /\ \E order \in orders :
              LET r == BulkWordActionView_post_as(DB, user, data, order)
              IN  /\ Commit(r.db)
                  /\ lastOp' = [op |-> "bulk_action_as", status |-> r.status,
                                word_ids |-> ids, args |-> <<user, data.action>>]
        /\ Step
        /\ UNCHANGED nextId

NextOwner ==
    \/ \E d \in Dicts, p \in BulkProgress : CreateWord(d, p)
    \/ \E user \in Users, data \in OwnerBodies : BulkActionAs(user, data)

OwnerSpec == Init /\ [][NextOwner]_vars

\* C39: a bulk action (delete, disable_highlight, enable_highlight) issued
\* by user U never deletes or modifies a word of a dictionary owned by
\* another user, nor that dictionary's aggregates.
C39_BulkOnlyOwnWords ==
    [][lastOp'.op = "bulk_action_as"
       => \A d \in DOMAIN dictionaries :
            dictionaries[d].user_id # lastOp'.args[1]
            => /\ dictionaries'[d] = dictionaries[d]
               /\ progress'[d] = progress[d]
               /\ \A w \in WordsOf(DB, d) :
                     /\ w \in DOMAIN words'
                     /\ userwords'[w] = userwords[w]]_vars

=============================================================================
